---- MODULE Spec2Model ----
(***************************************************************************)
(* Chef Fest: the request handlers of the REST API (routes) over the       *)
(* persistence gateway (DatabaseStorage), the zod schemas of the shared    *)
(* schema and the AI adapter (OpenAIService).                               *)
(*                                                                         *)
(* The tables of the relational store are the state.  A handler is one     *)
(* action; the last request and its response are kept in req and resp so   *)
(* that properties of a response can be stated.                            *)
(*                                                                         *)
(* Encodings.  A JSON number n is kept in half units h = 2n, so that 2.5   *)
(* (h = 5) can be told from 2 and 3; an integer column stores h \div 2.    *)
(* Text searched by ILIKE is a sequence of characters.  An average is the  *)
(* pair <<sum, count>> read as the rational sum/count.                     *)
(***************************************************************************)
EXTENDS Integers, Sequences, FiniteSets, TLC

VARIABLES users, recipes, reviews, savedRecipes, contactMessages, siteSettings,
          nextId, req, resp, gen, calls

vars == <<users, recipes, reviews, savedRecipes, contactMessages, siteSettings,
          nextId, req, resp, gen, calls>>

\* the tables of the contact form and of the site settings
site == <<contactMessages, siteSettings>>

tables == <<users, recipes, reviews, savedRecipes, contactMessages, siteSettings>>

---------------------------------------------------------------------------
(* Bounds of the model *)

\* recipes in the table of the list queries
MaxListRecipes == 2
\* recipes the requests of one behaviour may create
MaxRecipes == 1
\* reviews of one behaviour of the requests on recipes
MaxRecipeReviews == 1
\* reviews the requests of one behaviour may create
MaxReviews == 2
\* reviews of one behaviour of the rating aggregate
MaxRatedReviews == 3
\* saved-recipe rows the requests of one behaviour may create
MaxSaved == 2
\* reviews and saved-recipe rows of one behaviour with deleted users
MaxUserReviews == 3
MaxUserSaved == 2
\* saved-recipe rows of one behaviour of the reads
MaxVisibleSaved == 2
\* concurrent requests that read the site settings
MaxReaders == 2
\* recipes in the table of the featured list
MaxFeaturedRecipes == 11
\* saved-recipe rows of one behaviour of saves and unsaves
MaxPairSaved == 3
\* contact messages the requests of one behaviour may create
MaxMessages == 2
\* candidates the AI adapter returns for one request
MaxCandidates == 3
\* recipes the generating requests of one behaviour may create
MaxGenerated == 3
MaxBannedReviews == 1
MaxBannedSaved == 1

---------------------------------------------------------------------------
(* Values *)

NULL == "NULL"
Anonymous == "anonymous"
Absent == "absent"

Subjects == {"u1", "u2", "adm"}
Callers == Subjects \cup {Anonymous}
Roles == {"user", "admin", "banned"}

\* users.role of a subject, NULL when the users table has no row for it
RoleOf(u) == IF u \in DOMAIN users THEN users[u] ELSE NULL

---------------------------------------------------------------------------
(* Text and ILIKE *)

\* a null text column
NullText == <<NULL>>

Lower(c) == CASE c = "P" -> "p" [] c = "A" -> "a" [] OTHER -> c

ToLower(s) == [i \in 1..Len(s) |-> Lower(s[i])]

\* pat occurs in text
Contains(text, pat) ==
  \E i \in 0..(Len(text) - Len(pat)) : \A j \in 1..Len(pat) : text[i + j] = pat[j]

\* ilike(column, `%${search}%`): case-insensitive, not true of a null column
ILike(col, search) ==
  col # NullText /\ Contains(ToLower(col), ToLower(search))

---------------------------------------------------------------------------
(* The query builder.  A select keeps one where clause: where() assigns    *)
(* it, so a second call replaces the clause of the first.                  *)

SelectFromRecipes == [where |-> [k |-> "true"]]

Where(query, cond) == [query EXCEPT !.where = cond]

Holds(cond, r) ==
  CASE cond.k = "true" -> TRUE
    [] cond.k = "isApproved" -> r.isApproved = TRUE
    [] cond.k = "userId" -> r.userId = cond.v
    [] cond.k = "cuisine" -> r.cuisine = cond.v
    [] cond.k = "difficulty" -> r.difficulty = cond.v
    [] cond.k = "search" -> ILike(r.name, cond.s) \/ ILike(r.description, cond.s)

RECURSIVE OrderByCreatedAtDesc(_)
OrderByCreatedAtDesc(rows) ==
  IF rows = {} THEN <<>>
  ELSE LET newest == CHOOSE r \in rows : \A o \in rows : o.createdAt <= r.createdAt
       IN <<newest>> \o OrderByCreatedAtDesc(rows \ {newest})

LimitOffset(s, limit, offset) ==
  SubSeq(s, offset + 1, IF offset + limit < Len(s) THEN offset + limit ELSE Len(s))

\* if (filters.x): undefined and the empty string are falsy
Truthy(v) == v # Absent /\ v # ""

\* DatabaseStorage.getRecipes
GetRecipes(limit, offset, filters) ==
  LET q0 == Where(SelectFromRecipes, [k |-> "isApproved"])
      q1 == IF Truthy(filters.userId)
              THEN Where(q0, [k |-> "userId", v |-> filters.userId]) ELSE q0
      q2 == IF Truthy(filters.cuisine)
              THEN Where(q1, [k |-> "cuisine", v |-> filters.cuisine]) ELSE q1
      q3 == IF Truthy(filters.difficulty)
              THEN Where(q2, [k |-> "difficulty", v |-> filters.difficulty]) ELSE q2
      q4 == IF filters.search # <<>>
              THEN Where(q3, [k |-> "search", s |-> filters.search]) ELSE q3
  IN LimitOffset(OrderByCreatedAtDesc({r \in recipes : Holds(q4.where, r)}),
                 limit, offset)

DefaultLimit == 20

\* GET /api/recipes
ListRecipesReq ==
  \E userId \in {Absent, "u1"}, cuisine \in {Absent, "italian"},
     difficulty \in {Absent, "easy"}, search \in {<<>>, <<"p">>},
     paging \in {<<1, DefaultLimit>>, <<2, 1>>} :
    LET filters == [userId |-> userId, cuisine |-> cuisine,
                    difficulty |-> difficulty, search |-> search]
        page == paging[1]
        limit == paging[2]
        offset == (page - 1) * limit
    IN /\ req' = [op |-> "GET /api/recipes", caller |-> Anonymous, id |-> 0,
                  filters |-> filters, page |-> page, limit |-> limit]
       /\ resp' = [status |-> 200, recipes |-> GetRecipes(limit, offset, filters)]
       /\ UNCHANGED <<tables, nextId, gen, calls>>

---------------------------------------------------------------------------
(* Rows *)

Recipe(id, userId, name, description, cuisine, difficulty, imageUrl, isApproved) ==
  [id |-> id, name |-> name, description |-> description, cuisine |-> cuisine,
   difficulty |-> difficulty, imageUrl |-> imageUrl, userId |-> userId,
   isFeatured |-> FALSE, isApproved |-> isApproved, createdAt |-> id]

NoRequest == [op |-> "none", caller |-> Anonymous, id |-> 0]
NoResponse == [status |-> 0]
NoGen == [pc |-> "idle"]

\* the requests handled statement by statement, side by side: the reads of
\* the site settings, the fetch of a recipe, the deletes of a recipe
Readers == 1..MaxReaders
NoCall == [pc |-> "idle", caller |-> Anonymous, status |-> 0, settings |-> {}]
NoCalls == [p \in Readers |-> NoCall]

\* no request is being handled: the next one may arrive
Idle == req = NoRequest

\* the response has been sent (res.json, res.status(..).json): the request ends
Complete ==
  /\ req # NoRequest
  /\ resp # NoResponse
  /\ req' = NoRequest
  /\ resp' = NoResponse
  /\ gen' = NoGen
  /\ UNCHANGED <<tables, nextId, calls>>

\* name and description: the name alone, the description alone or neither
\* holds the letter the queries search for
ListTexts ==
  {[name |-> <<"P", "a">>, description |-> NullText],
   [name |-> <<"x">>, description |-> <<"a", "p">>],
   [name |-> <<"x">>, description |-> NullText]}

ListAttrs ==
  [userId : {"u1", "u2"}, text : ListTexts, cuisine : {"italian", "thai"},
   difficulty : {"easy", "hard"}, isApproved : BOOLEAN]

\* the recipes table of the list queries: MaxListRecipes rows of any content
InitList ==
  /\ users = [u \in Subjects |-> IF u = "adm" THEN "admin" ELSE "user"]
  /\ \E f \in [1..MaxListRecipes -> ListAttrs] :
       recipes = {Recipe(i, f[i].userId, f[i].text.name, f[i].text.description, f[i].cuisine,
                         f[i].difficulty, NULL, f[i].isApproved) : i \in 1..MaxListRecipes}
  /\ reviews = {}
  /\ savedRecipes = {}
  /\ contactMessages = {}
  /\ siteSettings = {}
  /\ nextId = [recipe |-> MaxListRecipes + 1, review |-> 1, saved |-> 1, message |-> 1]
  /\ req = NoRequest
  /\ resp = NoResponse
  /\ gen = NoGen
  /\ calls = NoCalls

NextList ==
  \/ Idle /\ ListRecipesReq
  \/ Complete

SpecList == InitList /\ [][NextList]_vars

---------------------------------------------------------------------------
(* Guards *)

\* the authentication guard: the request carries a resolved caller identity
IsAuthenticated(caller) == caller # Anonymous

---------------------------------------------------------------------------
(* Validation: insertReviewSchema *)

Number(h) == [t |-> "number", h |-> h]
NotANumber == [t |-> "string", h |-> 0]
Undefined == [t |-> "undefined", h |-> 0]

MinRating == 1
MaxRating == 5

\* rating: z.number().min(1).max(5); required unless the schema is partial
RatingIssue(rating, partial) ==
  CASE rating.t = "undefined" -> ~partial
    [] rating.t = "string" -> TRUE
    [] OTHER -> rating.h < 2 * MinRating \/ rating.h > 2 * MaxRating

\* insertReviewSchema.parse / insertReviewSchema.partial().parse: the fields
\* with an issue (recipeId and userId are strings whenever they are present)
ParseReview(data, partial) ==
  LET issues == {f \in {"rating"} : RatingIssue(data.rating, partial)}
                \cup {f \in {"recipeId"} : ~partial /\ data.recipeId = 0}
                \cup {f \in {"userId"} : ~partial /\ data.userId = Absent}
  IN [ok |-> issues = {}, errors |-> issues]

---------------------------------------------------------------------------
(* The store: constraints of the tables *)

RecipeIds == {r.id : r \in recipes}

\* an integer column takes no number with a fractional part
IntegerColumnRejects(rating) == rating.t = "number" /\ rating.h % 2 # 0

\* reviews.recipe_id and reviews.user_id reference recipes.id and users.id
ReviewViolatesForeignKey(recipeId, userId) ==
  recipeId \notin RecipeIds \/ userId \notin DOMAIN users

\* the row an insert or update of reviews stores, defaults applied
ReviewRow(id, data) ==
  [id |-> id, recipeId |-> data.recipeId, userId |-> data.userId,
   rating |-> data.rating.h \div 2,
   comment |-> IF data.comment = Absent THEN NULL ELSE data.comment,
   isApproved |-> IF data.isApproved = Absent THEN TRUE ELSE data.isApproved = "true",
   createdAt |-> id]

\* set({ ...updates }): the fields the update carries replace the row's
ApplyReviewUpdates(row, u) ==
  [row EXCEPT
     !.recipeId = IF u.recipeId = 0 THEN @ ELSE u.recipeId,
     !.userId = IF u.userId = Absent THEN @ ELSE u.userId,
     !.rating = IF u.rating.t = "undefined" THEN @ ELSE u.rating.h \div 2,
     !.comment = IF u.comment = Absent THEN @ ELSE u.comment,
     !.isApproved = IF u.isApproved = Absent THEN @ ELSE u.isApproved = "true"]

---------------------------------------------------------------------------
(* DatabaseStorage: reviews *)

\* createReview: the insert throws on a constraint it violates
CreateReviewThrows(data) ==
  IntegerColumnRejects(data.rating) \/ ReviewViolatesForeignKey(data.recipeId, data.userId)

\* (mutant) the author condition of the where clause left out
ReviewRowsById(id, userId) == {v \in reviews : v.id = id}

\* the rows updateReview and deleteReview address: id and author both match
OwnReviewRows(id, userId) == {v \in reviews : v.id = id /\ v.userId = userId}

UpdateReviewThrows(id, userId, u) ==
  \/ IntegerColumnRejects(u.rating)
  \/ \E v \in OwnReviewRows(id, userId) :
       LET w == ApplyReviewUpdates(v, u)
       IN ReviewViolatesForeignKey(w.recipeId, w.userId)

UpdateReview(id, userId, u) ==
  (reviews \ OwnReviewRows(id, userId))
    \cup {ApplyReviewUpdates(v, u) : v \in OwnReviewRows(id, userId)}

DeleteReview(id, userId) == reviews \ OwnReviewRows(id, userId)

---------------------------------------------------------------------------
(* DatabaseStorage.getRecipe *)

\* (mutant) the approval condition of the where clause left out
AllReviewsOf(id) == {v \in reviews : v.recipeId = id}

\* where(and(eq(reviews.recipeId, id), eq(reviews.isApproved, true)))
ApprovedReviewsOf(id) == {v \in reviews : v.recipeId = id /\ v.isApproved = TRUE}

RECURSIVE SumOfRatings(_)
SumOfRatings(rows) ==
  IF rows = {} THEN 0
  ELSE LET v == CHOOSE x \in rows : TRUE IN v.rating + SumOfRatings(rows \ {v})

\* avg() over no row is null
NullAvg == <<0, 0>>

\* select avg(reviews.rating): sum / count of the selected rows
AvgRating(id) ==
  LET rows == ApprovedReviewsOf(id)
  IN IF rows = {} THEN NullAvg ELSE <<SumOfRatings(rows), Cardinality(rows)>>

\* select count()
ReviewCount(id) == Cardinality(ApprovedReviewsOf(id))

\* getRecipe of an existing recipe
GetRecipe(id) ==
  LET recipe == CHOOSE r \in recipes : r.id = id
      avgRating == AvgRating(id)
  IN [status |-> 200, recipe |-> recipe,
      reviews |-> OrderByCreatedAtDesc(ApprovedReviewsOf(id)),
      averageRating |-> IF avgRating # NullAvg THEN avgRating ELSE <<0, 1>>,
      reviewCount |-> ReviewCount(id)]

---------------------------------------------------------------------------
(* Handlers: reviews and the single recipe *)

\* GET /api/recipes/:id
GetRecipeReq(id) ==
  /\ req' = [op |-> "GET /api/recipes/:id", caller |-> Anonymous, id |-> id]
  /\ resp' = IF id \in RecipeIds THEN GetRecipe(id) ELSE [status |-> 404]
  /\ UNCHANGED <<tables, nextId, gen, calls>>

\* (mutant) the keys of the body spread last: { recipeId, userId, ...req.body }
ReviewDataBodyLast(body, id, caller) ==
  [body EXCEPT !.recipeId = IF @ = 0 THEN id ELSE @,
               !.userId = IF @ = Absent THEN caller ELSE @]

\* { ...req.body, recipeId: req.params.id, userId: req.user.claims.sub }
ReviewData(body, id, caller) ==
  [body EXCEPT !.recipeId = id, !.userId = caller]

\* POST /api/recipes/:id/reviews
CreateReviewReq(caller, id, body) ==
  LET data == ReviewData(body, id, caller)
      parsed == ParseReview(data, FALSE)
      row == ReviewRow(nextId.review, data)
  IN /\ req' = [op |-> "POST /api/recipes/:id/reviews", caller |-> caller, id |-> id,
                body |-> body]
     /\ UNCHANGED <<site, users, recipes, savedRecipes, gen, calls>>
     /\ IF ~IsAuthenticated(caller)
          THEN resp' = [status |-> 401] /\ UNCHANGED <<reviews, nextId>>
        ELSE IF ~parsed.ok
          THEN /\ resp' = [status |-> 400, errors |-> parsed.errors]
               /\ UNCHANGED <<reviews, nextId>>
        ELSE IF CreateReviewThrows(data)
          THEN resp' = [status |-> 500] /\ UNCHANGED <<reviews, nextId>>
        ELSE /\ reviews' = reviews \cup {row}
             /\ nextId' = [nextId EXCEPT !.review = @ + 1]
             /\ resp' = [status |-> 200, review |-> row]

\* PUT /api/reviews/:id
UpdateReviewReq(caller, id, body) ==
  LET parsed == ParseReview(body, TRUE)
  IN /\ req' = [op |-> "PUT /api/reviews/:id", caller |-> caller, id |-> id,
                body |-> body]
     /\ UNCHANGED <<site, users, recipes, savedRecipes, nextId, gen, calls>>
     /\ IF ~IsAuthenticated(caller)
          THEN resp' = [status |-> 401] /\ UNCHANGED reviews
        ELSE IF ~parsed.ok
          THEN /\ resp' = [status |-> 400, errors |-> parsed.errors]
               /\ UNCHANGED reviews
        ELSE IF UpdateReviewThrows(id, caller, body)
          THEN resp' = [status |-> 500] /\ UNCHANGED reviews
        ELSE IF OwnReviewRows(id, caller) = {}
          THEN resp' = [status |-> 404] /\ UNCHANGED reviews
        ELSE /\ reviews' = UpdateReview(id, caller, body)
             /\ resp' = [status |-> 200]

\* DELETE /api/reviews/:id
DeleteReviewReq(caller, id) ==
  /\ req' = [op |-> "DELETE /api/reviews/:id", caller |-> caller, id |-> id]
  /\ UNCHANGED <<site, users, recipes, savedRecipes, nextId, gen, calls>>
  /\ IF ~IsAuthenticated(caller)
       THEN resp' = [status |-> 401] /\ UNCHANGED reviews
     ELSE IF OwnReviewRows(id, caller) = {}
       THEN resp' = [status |-> 404] /\ UNCHANGED reviews
     ELSE /\ reviews' = DeleteReview(id, caller)
          /\ resp' = [status |-> 200]

---------------------------------------------------------------------------
(* OpenAIService *)

\* (mutant) a failed image call leaves the reference undefined
GenerateRecipeImageOrNull(outcome) ==
  CASE outcome = "url" -> "https://image"
    [] outcome = "nourl" -> ""
    [] outcome = "error" -> NULL

\* generateRecipeImage: the url of the generated image, "" when the response
\* carries none, and "" when the call fails (the error is caught)
GenerateRecipeImage(outcome) ==
  CASE outcome = "url" -> "https://image"
    [] outcome = "nourl" -> ""
    [] outcome = "error" -> ""

\* (mutant) the failure of the image call reaches the caller
GenerateRecipeImageRethrows(outcome) == outcome = "error"

\* generateRecipeImage catches every error of the image call: it never throws
GenerateRecipeImageThrows(outcome) == FALSE

\* the ways an AI call fails: an error of the external service, a response
\* without content, content that is not JSON
AiFailures == {"error", "empty", "unparsable"}

\* (mutant) the failure of the call goes unnoticed
GenerateRecipesNeverThrows(ai) == FALSE

\* generateRecipesFromIngredients throws (a generic error) on every failure
GenerateRecipesThrows(ai) == ai \in AiFailures

\* identifyDishFromPhoto throws (a generic error) on every failure
IdentifyDishThrows(dish) == dish \in AiFailures

\* identifyDishFromPhoto: the dish of the response, with the confidence the
\* model reported (in percent)
IdentifyDishFromPhoto(dish) == [name |-> <<"P", "a">>, confidence |-> 90]

\* the answer of the catch of a handler: the status and the fixed message of
\* the route; the error itself is logged only
Failed(message) == [status |-> 500, message |-> message]

\* the names of the candidates, by position
Letters == <<"a", "b", "c", "d", "e">>

\* generateRecipesFromIngredients: n candidates in the order of the response;
\* the candidate at position bad (0: none) comes without a name
GenerateRecipesFromIngredients(n, bad) ==
  [i \in 1..n |-> [name |-> IF i = bad THEN NullText ELSE <<"P", Letters[i]>>]]

---------------------------------------------------------------------------
(* DatabaseStorage: recipes and saved recipes *)

\* recipes.user_id references users.id and recipes.name is not null
CreateRecipeThrows(userId, name) ==
  userId \notin DOMAIN users \/ name = NullText

\* the row createRecipe inserts for an identified or generated dish
NewRecipe(id, userId, name, imageUrl) ==
  Recipe(id, userId, name, NullText, "italian", "easy", imageUrl, TRUE)

\* saved_recipes.user_id and saved_recipes.recipe_id reference users and recipes
SaveRecipeThrows(userId, recipeId) ==
  recipeId \notin RecipeIds \/ userId \notin DOMAIN users

\* onConflictDoNothing: the insert is skipped when the new row collides with a
\* row on a unique constraint; saved_recipes has one, its primary key id
SavedRecipeConflicts(row) == \E s \in savedRecipes : s.id = row.id

SavedRow(id, userId, recipeId) ==
  [id |-> id, userId |-> userId, recipeId |-> recipeId, createdAt |-> id]

\* (mutant) the rows of the recipe, of whatever user
SavedRowsOfRecipe(userId, recipeId) ==
  {s \in savedRecipes : s.recipeId = recipeId}

\* the rows unsaveRecipe deletes
SavedRowsOf(userId, recipeId) ==
  {s \in savedRecipes : s.userId = userId /\ s.recipeId = recipeId}

---------------------------------------------------------------------------
(* Handlers: recipes and saved recipes *)

\* POST /api/recipes/identify-from-photo
IdentifyFromPhotoReq(caller, file, dish, image) ==
  /\ req' = [op |-> "POST /api/recipes/identify-from-photo", caller |-> caller,
             id |-> 0, file |-> file, dish |-> dish, image |-> image]
  /\ UNCHANGED <<site, users, reviews, savedRecipes, gen, calls>>
  /\ IF ~IsAuthenticated(caller)
       THEN resp' = [status |-> 401] /\ UNCHANGED <<recipes, nextId>>
     ELSE IF ~file
       THEN resp' = [status |-> 400] /\ UNCHANGED <<recipes, nextId>>
     ELSE IF \/ IdentifyDishThrows(dish)
             \/ GenerateRecipeImageThrows(image)
             \/ CreateRecipeThrows(caller, IdentifyDishFromPhoto(dish).name)
       THEN /\ resp' = Failed("Failed to identify dish from photo")
            /\ UNCHANGED <<recipes, nextId>>
     ELSE LET identifiedDish == IdentifyDishFromPhoto(dish)
              row == NewRecipe(nextId.recipe, caller, identifiedDish.name,
                               GenerateRecipeImage(image))
          IN /\ recipes' = recipes \cup {row}
             /\ nextId' = [nextId EXCEPT !.recipe = @ + 1]
             /\ resp' = [status |-> 200, recipe |-> row,
                         confidence |-> identifiedDish.confidence]

\* (mutant) a banned owner is refused
MayDeleteUnlessBanned(recipe, caller) ==
  (recipe.userId = caller /\ RoleOf(caller) # "banned") \/ RoleOf(caller) = "admin"

\* (mutant) the ownership test left out
MayDeleteAnyRecipe(recipe, caller) == TRUE

\* recipe.userId !== req.user.claims.sub && user?.role !== "admin" is the refusal
MayDeleteRecipe(recipe, caller) ==
  recipe.userId = caller \/ RoleOf(caller) = "admin"

\* DELETE /api/recipes/:id; the delete cascades to the reviews and the
\* saved-recipe rows of the recipe
DeleteRecipeReq(caller, id) ==
  /\ req' = [op |-> "DELETE /api/recipes/:id", caller |-> caller, id |-> id]
  /\ UNCHANGED <<site, users, nextId, gen, calls>>
  /\ IF ~IsAuthenticated(caller)
       THEN resp' = [status |-> 401] /\ UNCHANGED <<recipes, reviews, savedRecipes>>
     ELSE IF id \notin RecipeIds
       THEN resp' = [status |-> 404] /\ UNCHANGED <<recipes, reviews, savedRecipes>>
     ELSE IF ~MayDeleteRecipe(CHOOSE r \in recipes : r.id = id, caller)
       THEN resp' = [status |-> 403] /\ UNCHANGED <<recipes, reviews, savedRecipes>>
     ELSE /\ recipes' = {r \in recipes : r.id # id}
          /\ reviews' = {v \in reviews : v.recipeId # id}
          /\ savedRecipes' = {s \in savedRecipes : s.recipeId # id}
          /\ resp' = [status |-> 200]

\* POST /api/saved-recipes; recipeId 0 is a body without recipeId
SaveRecipeReq(caller, recipeId) ==
  LET row == SavedRow(nextId.saved, caller, recipeId)
  IN /\ req' = [op |-> "POST /api/saved-recipes", caller |-> caller, id |-> recipeId]
     /\ UNCHANGED <<site, users, recipes, reviews, gen, calls>>
     /\ IF ~IsAuthenticated(caller)
          THEN resp' = [status |-> 401] /\ UNCHANGED <<savedRecipes, nextId>>
        ELSE IF recipeId = 0
          THEN resp' = [status |-> 400] /\ UNCHANGED <<savedRecipes, nextId>>
        ELSE IF SaveRecipeThrows(caller, recipeId)
          THEN resp' = [status |-> 500] /\ UNCHANGED <<savedRecipes, nextId>>
        ELSE IF SavedRecipeConflicts(row)
          THEN resp' = [status |-> 200, saved |-> {}] /\ UNCHANGED <<savedRecipes, nextId>>
        ELSE /\ savedRecipes' = savedRecipes \cup {row}
             /\ nextId' = [nextId EXCEPT !.saved = @ + 1]
             /\ resp' = [status |-> 200, saved |-> {row}]

\* DELETE /api/saved-recipes/:recipeId
UnsaveRecipeReq(caller, recipeId) ==
  /\ req' = [op |-> "DELETE /api/saved-recipes/:recipeId", caller |-> caller,
             id |-> recipeId]
  /\ UNCHANGED <<site, users, recipes, reviews, nextId, gen, calls>>
  /\ IF ~IsAuthenticated(caller)
       THEN resp' = [status |-> 401] /\ UNCHANGED savedRecipes
     ELSE IF SavedRowsOf(caller, recipeId) = {}
       THEN resp' = [status |-> 404] /\ UNCHANGED savedRecipes
     ELSE /\ savedRecipes' = savedRecipes \ SavedRowsOf(caller, recipeId)
          /\ resp' = [status |-> 200]

---------------------------------------------------------------------------
(* POST /api/recipes/generate-from-ingredients, one step per await of the  *)
(* loop.  gen is the frame of the handler: the candidates (recipes), the   *)
(* position in the loop (k), the image reference of the current candidate  *)
(* and the rows saved so far (savedRecipes).  images and threw record what *)
(* happened: the outcome of each image call and whether an insert threw.   *)

NoIngredients == [present |-> FALSE, isArray |-> FALSE, length |-> 0]
Ingredients(isArray, length) == [present |-> TRUE, isArray |-> isArray, length |-> length]

\* !ingredients || !Array.isArray(ingredients) || ingredients.length === 0
IngredientsMissing(ingredients) ==
  ~ingredients.present \/ ~ingredients.isArray \/ ingredients.length = 0

GenerateFromIngredientsOp == "POST /api/recipes/generate-from-ingredients"

\* the handler up to the loop: the guard, the validation and the AI call
GenerateFromIngredientsReq(caller, ingredients, ai, n, bad) ==
  /\ req' = [op |-> GenerateFromIngredientsOp, caller |-> caller, id |-> 0,
             ingredients |-> ingredients, ai |-> ai]
  /\ UNCHANGED <<tables, nextId, calls>>
  /\ IF ~IsAuthenticated(caller)
       THEN resp' = [status |-> 401] /\ UNCHANGED gen
     ELSE IF IngredientsMissing(ingredients)
       THEN resp' = [status |-> 400] /\ UNCHANGED gen
     ELSE IF GenerateRecipesThrows(ai)
       THEN resp' = Failed("Failed to generate recipes") /\ UNCHANGED gen
     ELSE LET frame == [pc |-> "image", caller |-> caller,
                        recipes |-> GenerateRecipesFromIngredients(n, bad),
                        k |-> 1, imageUrl |-> NULL, savedRecipes |-> <<>>,
                        images |-> <<>>, threw |-> FALSE]
          IN IF n = 0
               THEN /\ resp' = [status |-> 200, recipes |-> <<>>]
                    /\ gen' = [frame EXCEPT !.pc = "done"]
               ELSE /\ resp' = NoResponse
                    /\ gen' = frame

\* savedRecipes.push(savedRecipe) and the next turn of the loop, or the
\* response after the last candidate
Pushed(row) ==
  LET saved == Append(gen.savedRecipes, row)
  IN IF gen.k = Len(gen.recipes)
       THEN /\ gen' = [gen EXCEPT !.pc = "done", !.savedRecipes = saved]
            /\ resp' = [status |-> 200, recipes |-> saved]
       ELSE /\ gen' = [gen EXCEPT !.pc = "image", !.k = @ + 1, !.imageUrl = NULL,
                                  !.savedRecipes = saved]
            /\ UNCHANGED resp

\* await openaiService.generateRecipeImage(recipe.name, recipe.description)
GenerateImageStep(outcome) ==
  /\ gen.pc = "image"
  /\ gen' = [gen EXCEPT !.pc = IF GenerateRecipeImageThrows(outcome)
                                 THEN "catch" ELSE "create",
                        !.imageUrl = IF GenerateRecipeImageThrows(outcome)
                                       THEN NULL ELSE GenerateRecipeImage(outcome),
                        !.images = Append(@, outcome)]
  /\ UNCHANGED <<tables, nextId, req, resp, calls>>

\* await storage.createRecipe({...recipe, imageUrl, userId}); db is the
\* outcome of the statement at the database
CreateRecipeStep(db) ==
  /\ gen.pc = "create"
  /\ UNCHANGED <<site, users, reviews, savedRecipes, req, calls>>
  /\ IF db = "error" \/ CreateRecipeThrows(gen.caller, gen.recipes[gen.k].name)
       THEN /\ gen' = [gen EXCEPT !.pc = "catch", !.threw = TRUE]
            /\ UNCHANGED <<recipes, nextId, resp>>
       ELSE LET row == NewRecipe(nextId.recipe, gen.caller, gen.recipes[gen.k].name,
                                 gen.imageUrl)
            IN /\ recipes' = recipes \cup {row}
               /\ nextId' = [nextId EXCEPT !.recipe = @ + 1]
               /\ Pushed(row)

\* (mutant) a failure of the second insert is swallowed and the loop goes on
CatchCreateRecipeSwallows(db) ==
  /\ gen.pc = "catch"
  /\ UNCHANGED <<site, users, reviews, savedRecipes, req, calls>>
  /\ IF db = "error" \/ CreateRecipeThrows(gen.caller, gen.recipes[gen.k].name)
       THEN /\ UNCHANGED <<recipes, nextId>>
            /\ IF gen.k = Len(gen.recipes)
                 THEN /\ gen' = [gen EXCEPT !.pc = "done", !.threw = TRUE]
                      /\ resp' = [status |-> 200, recipes |-> gen.savedRecipes]
                 ELSE /\ gen' = [gen EXCEPT !.pc = "image", !.k = @ + 1,
                                            !.imageUrl = NULL, !.threw = TRUE]
                      /\ UNCHANGED resp
       ELSE LET row == NewRecipe(nextId.recipe, gen.caller, gen.recipes[gen.k].name, NULL)
            IN /\ recipes' = recipes \cup {row}
               /\ nextId' = [nextId EXCEPT !.recipe = @ + 1]
               /\ Pushed(row)

\* the catch of the loop body: await storage.createRecipe({...recipe, userId});
\* an error here leaves the loop and is answered by the handler's catch
CatchCreateRecipeStep(db) ==
  /\ gen.pc = "catch"
  /\ UNCHANGED <<site, users, reviews, savedRecipes, req, calls>>
  /\ IF db = "error" \/ CreateRecipeThrows(gen.caller, gen.recipes[gen.k].name)
       THEN /\ gen' = [gen EXCEPT !.pc = "done", !.threw = TRUE]
            /\ resp' = Failed("Failed to generate recipes")
            /\ UNCHANGED <<recipes, nextId>>
       ELSE LET row == NewRecipe(nextId.recipe, gen.caller, gen.recipes[gen.k].name, NULL)
            IN /\ recipes' = recipes \cup {row}
               /\ nextId' = [nextId EXCEPT !.recipe = @ + 1]
               /\ Pushed(row)

---------------------------------------------------------------------------
(* Users, the contact form, the site settings and the admin guard *)

\* upsertUser with the userData of a login, which carries no role: a new row
\* takes the default role, an existing row keeps its role
UpsertUser(id) ==
  /\ users' = IF id \in DOMAIN users THEN users
              ELSE [u \in DOMAIN users \cup {id} |-> IF u = id THEN "user" ELSE users[u]]
  /\ UNCHANGED <<site, recipes, reviews, savedRecipes, nextId, req, resp, gen, calls>>

\* (mutant) the user row alone is deleted
DeleteUserRow(id) ==
  /\ id \in DOMAIN users
  /\ users' = [u \in DOMAIN users \ {id} |-> users[u]]
  /\ UNCHANGED <<site, recipes, reviews, savedRecipes, nextId, req, resp, gen, calls>>

\* a user row deleted at the database: recipes.user_id, reviews.user_id and
\* saved_recipes.user_id cascade, and so do the rows that reference a deleted
\* recipe
DeleteUser(id) ==
  LET kept == {r \in recipes : r.userId # id}
      keptIds == {r.id : r \in kept}
  IN /\ id \in DOMAIN users
     /\ users' = [u \in DOMAIN users \ {id} |-> users[u]]
     /\ recipes' = kept
     /\ reviews' = {v \in reviews : v.userId # id /\ v.recipeId \in keptIds}
     /\ savedRecipes' = {v \in savedRecipes : v.userId # id /\ v.recipeId \in keptIds}
     /\ UNCHANGED <<site, nextId, req, resp, gen, calls>>

\* insertContactMessageSchema: name, email and message are required
ContactIssue(body) == Absent \in {body.name, body.email, body.message}

\* (mutant) the keys the schema omits are kept
ParseContactKeepsAll(body) == body

\* insertContactMessageSchema.parse: the keys of the schema, the others
\* (isRead among them) are stripped
ParseContactMessage(body) ==
  [name |-> body.name, email |-> body.email, message |-> body.message]

\* the row createContactMessage inserts: is_read defaults to false when the
\* values do not give it
ContactMessageRow(id, data) ==
  [id |-> id, name |-> data.name, email |-> data.email, message |-> data.message,
   isRead |-> IF "isRead" \in DOMAIN data THEN data.isRead = "true" ELSE FALSE,
   createdAt |-> id]

\* POST /api/contact
ContactReq(caller, body) ==
  /\ req' = [op |-> "POST /api/contact", caller |-> caller, id |-> 0, body |-> body]
  /\ UNCHANGED <<users, recipes, reviews, savedRecipes, siteSettings, gen, calls>>
  /\ IF ContactIssue(body)
       THEN resp' = [status |-> 400] /\ UNCHANGED <<contactMessages, nextId>>
       ELSE /\ contactMessages' = contactMessages \cup
                 {ContactMessageRow(nextId.message, ParseContactMessage(body))}
            /\ nextId' = [nextId EXCEPT !.message = @ + 1]
            /\ resp' = [status |-> 200, message |-> "Message sent successfully"]

\* the defaults of the columns of site_settings
DefaultHeroText == "Transform Ingredients Into Culinary Magic"
DefaultSettings == [id |-> "settings", heroText |-> DefaultHeroText]

\* a JSON number where a string is expected
NotAString == "<number>"

\* updateSiteSettingsSchema, for heroText
SettingsIssue(body) == body.heroText = NotAString

\* (mutant) the role is the one the user had when the session began
IsAdminAtLogin(caller) ==
  IF caller = Anonymous THEN 401
  ELSE IF caller # "adm" THEN 403
  ELSE 0

\* (mutant) the role of the user is not looked at
IsAdminAnyUser(caller) ==
  IF caller = Anonymous THEN 401
  ELSE IF RoleOf(caller) = NULL THEN 403
  ELSE 0

\* isAdmin: the status of the rejection, 0 when next() is called
IsAdmin(caller) ==
  IF caller = Anonymous THEN 401
  ELSE IF RoleOf(caller) = NULL \/ RoleOf(caller) # "admin" THEN 403
  ELSE 0

\* isAuthenticated, isAdmin: the guards of the /api/admin routes
AdminGuard(caller) == IF ~IsAuthenticated(caller) THEN 401 ELSE IsAdmin(caller)

Rejected(caller) ==
  /\ resp' = [status |-> AdminGuard(caller)]
  /\ UNCHANGED <<tables, nextId>>

\* GET /api/admin/stats
AdminStatsReq(caller) ==
  /\ req' = [op |-> "GET /api/admin/stats", caller |-> caller, id |-> 0]
  /\ UNCHANGED <<gen, calls>>
  /\ IF AdminGuard(caller) # 0 THEN Rejected(caller)
     ELSE /\ resp' = [status |-> 200, totalUsers |-> Cardinality(DOMAIN users),
                      totalRecipes |-> Cardinality(recipes),
                      totalReviews |-> Cardinality(reviews),
                      aiRequests |-> Cardinality(recipes)]
          /\ UNCHANGED <<tables, nextId>>

\* GET /api/admin/users with the default page, which holds every user
AdminUsersReq(caller) ==
  /\ req' = [op |-> "GET /api/admin/users", caller |-> caller, id |-> 0]
  /\ UNCHANGED <<gen, calls>>
  /\ IF AdminGuard(caller) # 0 THEN Rejected(caller)
     ELSE /\ resp' = [status |-> 200, users |-> users]
          /\ UNCHANGED <<tables, nextId>>

\* a role change that would spare the last admin
UpdateUserRoleKeepsAdmin(id, role) ==
  IF role # "admin" /\ {u \in DOMAIN users : users[u] = "admin"} = {id}
    THEN users
    ELSE [users EXCEPT ![id] = role]

\* updateUserRole: update users set role where users.id = id
UpdateUserRole(id, role) == [users EXCEPT ![id] = role]

\* PUT /api/admin/users/:id/role
UpdateUserRoleReq(caller, id, role) ==
  /\ req' = [op |-> "PUT /api/admin/users/:id/role", caller |-> caller, id |-> 0,
             user |-> id, role |-> role]
  /\ UNCHANGED <<gen, calls>>
  /\ IF AdminGuard(caller) # 0 THEN Rejected(caller)
     ELSE IF role = Absent \/ role \notin {"user", "admin", "banned"}
       THEN resp' = [status |-> 400] /\ UNCHANGED <<tables, nextId>>
     ELSE IF id \notin DOMAIN users
       THEN resp' = [status |-> 404] /\ UNCHANGED <<tables, nextId>>
     ELSE /\ users' = UpdateUserRole(id, role)
          /\ resp' = [status |-> 200]
          /\ UNCHANGED <<site, recipes, reviews, savedRecipes, nextId>>

\* PUT /api/admin/recipes/:id/feature; a body without featured sets no column
\* but updatedAt
FeatureRecipeReq(caller, id, featured) ==
  /\ req' = [op |-> "PUT /api/admin/recipes/:id/feature", caller |-> caller, id |-> id,
             featured |-> featured]
  /\ UNCHANGED <<gen, calls>>
  /\ IF AdminGuard(caller) # 0 THEN Rejected(caller)
     ELSE IF id \notin RecipeIds
       THEN resp' = [status |-> 404] /\ UNCHANGED <<tables, nextId>>
     ELSE /\ recipes' = {IF r.id = id /\ featured # Absent
                           THEN [r EXCEPT !.isFeatured = (featured = "true")]
                           ELSE r : r \in recipes}
          /\ resp' = [status |-> 200]
          /\ UNCHANGED <<site, users, reviews, savedRecipes, nextId>>

\* GET /api/admin/contact-messages
ContactMessagesReq(caller) ==
  /\ req' = [op |-> "GET /api/admin/contact-messages", caller |-> caller, id |-> 0]
  /\ UNCHANGED <<gen, calls>>
  /\ IF AdminGuard(caller) # 0 THEN Rejected(caller)
     ELSE /\ resp' = [status |-> 200, messages |-> contactMessages]
          /\ UNCHANGED <<tables, nextId>>

\* (mutant) the flag of the message is flipped
ToggledRead(id) ==
  {IF m.id = id THEN [m EXCEPT !.isRead = ~@] ELSE m : m \in contactMessages}

\* markMessageAsRead: update(contactMessages).set({ isRead: true }) of the
\* message with the id
MarkedAsRead(id) ==
  {IF m.id = id THEN [m EXCEPT !.isRead = TRUE] ELSE m : m \in contactMessages}

\* PUT /api/admin/contact-messages/:id/read
MarkMessageAsReadReq(caller, id) ==
  /\ req' = [op |-> "PUT /api/admin/contact-messages/:id/read", caller |-> caller,
             id |-> id]
  /\ UNCHANGED <<gen, calls>>
  /\ IF AdminGuard(caller) # 0 THEN Rejected(caller)
     ELSE IF ~\E m \in contactMessages : m.id = id
       THEN resp' = [status |-> 404] /\ UNCHANGED <<tables, nextId>>
     ELSE /\ contactMessages' = MarkedAsRead(id)
          /\ resp' = [status |-> 200]
          /\ UNCHANGED <<users, recipes, reviews, savedRecipes, siteSettings, nextId>>

\* GET /api/admin/settings: getSiteSettings inserts the default row when the
\* table has none
GetSettingsReq(caller) ==
  /\ req' = [op |-> "GET /api/admin/settings", caller |-> caller, id |-> 0]
  /\ UNCHANGED <<gen, calls>>
  /\ IF AdminGuard(caller) # 0 THEN Rejected(caller)
     ELSE /\ siteSettings' = IF siteSettings = {} THEN {DefaultSettings} ELSE siteSettings
          /\ resp' = [status |-> 200, settings |-> siteSettings']
          /\ UNCHANGED <<users, recipes, reviews, savedRecipes, contactMessages, nextId>>

\* PUT /api/admin/settings: updateSiteSettings updates the row when there is one
UpdateSettingsReq(caller, body) ==
  /\ req' = [op |-> "PUT /api/admin/settings", caller |-> caller, id |-> 0, body |-> body]
  /\ UNCHANGED <<gen, calls>>
  /\ IF AdminGuard(caller) # 0 THEN Rejected(caller)
     ELSE IF SettingsIssue(body)
       THEN resp' = [status |-> 400] /\ UNCHANGED <<tables, nextId>>
     ELSE /\ siteSettings' = {IF body.heroText = Absent THEN row
                                ELSE [row EXCEPT !.heroText = body.heroText] :
                                row \in siteSettings}
          /\ resp' = [status |-> 200, settings |-> siteSettings']
          /\ UNCHANGED <<users, recipes, reviews, savedRecipes, contactMessages, nextId>>

---------------------------------------------------------------------------
(* Requests on reviews: ratings and the rating aggregate of a recipe *)

Body(rating, isApproved) ==
  [rating |-> rating, comment |-> Absent, isApproved |-> isApproved,
   userId |-> Absent, recipeId |-> 0]

PlainRecipe(id, userId) ==
  Recipe(id, userId, <<"P", "a">>, NullText, "italian", "easy", "", TRUE)

\* two recipes, of u1 and of u2, and no review yet
InitReviews ==
  /\ users = [u \in Subjects |-> IF u = "adm" THEN "admin" ELSE "user"]
  /\ recipes = {PlainRecipe(1, "u1"), PlainRecipe(2, "u2")}
  /\ reviews = {}
  /\ savedRecipes = {}
  /\ contactMessages = {}
  /\ siteSettings = {}
  /\ nextId = [recipe |-> 3, review |-> 1, saved |-> 1, message |-> 1]
  /\ req = NoRequest
  /\ resp = NoResponse
  /\ gen = NoGen
  /\ calls = NoCalls

\* ratings 1, 2 and 5
StoredRatings == {Number(2), Number(4), Number(10)}

NextRatings ==
  \/ Idle /\ \E id \in 1..3 : GetRecipeReq(id)
  \/ Idle /\ \E id \in 1..2, rating \in StoredRatings, isApproved \in {Absent, "false"} :
               /\ CreateReviewReq("u1", id, Body(rating, isApproved))
               /\ nextId'.review <= MaxRatedReviews + 1
  \/ Idle /\ \E id \in 1..MaxRatedReviews, isApproved \in {"true", "false"} :
               UpdateReviewReq("u1", id, Body(Undefined, isApproved))
  \/ Idle /\ \E id \in 1..MaxRatedReviews : DeleteReviewReq("u1", id)
  \/ Complete

SpecRatings == InitReviews /\ [][NextRatings]_vars

\* C3: the single-recipe fetch of an existing recipe returns the approved
\* reviews of that recipe and no other review, their number as reviewCount,
\* and as averageRating 0 when there is none and otherwise the arithmetic
\* mean of their ratings (averageRating * count = sum of the ratings).
C3_RatingAggregate ==
  (req.op = "GET /api/recipes/:id" /\ resp.status = 200) =>
    LET approved == {v \in reviews : v.recipeId = req.id /\ v.isApproved}
        n == Cardinality(approved)
        avgr == resp.averageRating
    IN /\ {resp.reviews[i] : i \in 1..Len(resp.reviews)} = approved
       /\ Len(resp.reviews) = n
       /\ resp.reviewCount = n
       /\ n = 0 => avgr = <<0, 1>>
       /\ n > 0 => /\ avgr[2] > 0
                   /\ avgr[1] * n = SumOfRatings(approved) * avgr[2]

\* C3 witness: a fetch answered with a fractional mean (1 and 2: 3/2) while
\* the recipe also has an unapproved review
C3_Witness ==
  /\ req.op = "GET /api/recipes/:id"
  /\ resp.status = 200
  /\ resp.reviewCount = 2
  /\ resp.averageRating = <<3, 2>>
  /\ \E v \in reviews : v.recipeId = req.id /\ ~v.isApproved

---------------------------------------------------------------------------
(* Requests on reviews: validation and authorship *)

\* ratings 0, 1, 2, 2.5, 5, 6, a string and none
RatingInputs ==
  {Number(0), Number(2), Number(4), Number(5), Number(10), Number(12),
   NotANumber, Undefined}

\* bodies of PUT /api/reviews/:id: a rating alone, or the approval flag alone
UpdateBodies ==
  {Body(r, Absent) : r \in RatingInputs \ {Number(2), Undefined}}
    \cup {Body(Undefined, "false")}

ReviewOps == {"PUT /api/reviews/:id", "DELETE /api/reviews/:id"}

NextReviews ==
  \/ Idle /\ \E c \in {"u1", "u2"}, id \in {1, 3}, rating \in RatingInputs :
               /\ CreateReviewReq(c, id, Body(rating, Absent))
               /\ nextId'.review <= MaxReviews + 1
  \/ Idle /\ CreateReviewReq(Anonymous, 1, Body(Number(10), Absent))
  \/ Idle /\ \E c \in Subjects, id \in 1..MaxReviews, body \in UpdateBodies :
               UpdateReviewReq(c, id, body)
  \/ Idle /\ UpdateReviewReq(Anonymous, 1, Body(Number(10), Absent))
  \/ Idle /\ \E c \in Callers, id \in 1..MaxReviews : DeleteReviewReq(c, id)
  \/ Complete

SpecReviews == InitReviews /\ [][NextReviews]_vars

\* C6: a PUT or DELETE of a review by a caller who is not its author leaves
\* the review row as it was and is never answered as a match: the answer is
\* 404 (no matching row) unless the request was refused before the storage
\* answered (401 no identity, 400 invalid body, 500 the store rejects a value).
C6_OthersReviewUnchanged ==
  [][req'.op \in ReviewOps =>
       \A v \in reviews :
         (v.id = req'.id /\ v.userId # req'.caller) =>
           /\ v \in reviews'
           /\ resp'.status \in {400, 401, 404, 500}
           /\ (IsAuthenticated(req'.caller) /\ req'.op = "DELETE /api/reviews/:id")
                => resp'.status = 404
           /\ (IsAuthenticated(req'.caller) /\ req'.op = "PUT /api/reviews/:id"
                 /\ req'.body.rating \in {Undefined, Number(4), Number(10)})
                => resp'.status = 404]_vars

\* C6 witness: an update by the admin of a review another user wrote was
\* answered 404
C6_Witness ==
  /\ req.op = "PUT /api/reviews/:id"
  /\ req.caller = "adm"
  /\ req.body.rating = Number(4)
  /\ resp.status = 404
  /\ \E v \in reviews : v.id = req.id /\ v.userId = "u1" /\ v.rating = 5

\* C7: a DELETE, or a PUT with a valid body, of an existing review by an
\* authenticated caller is permitted when the caller is the author or an
\* admin, and is answered 403 for every other caller.
C7_AuthorOrAdminElse403 ==
  [][(req'.op \in ReviewOps /\ IsAuthenticated(req'.caller)
        /\ (req'.op = "PUT /api/reviews/:id"
             => req'.body.rating \in StoredRatings \cup {Undefined})) =>
       \A v \in reviews :
         v.id = req'.id =>
           IF v.userId = req'.caller \/ RoleOf(req'.caller) = "admin"
             THEN resp'.status \notin {403, 404}
             ELSE resp'.status = 403]_vars

\* a rating a review must not have: below 1, above 5, or no integer
BadRating(rating) ==
  rating.t = "string"
    \/ (rating.t = "number" /\ (rating.h < 2 \/ rating.h > 10 \/ rating.h % 2 # 0))

\* C8: every stored review has an integer rating from 1 to 5; a create or
\* update by an authenticated caller whose rating is below 1, above 5 or no
\* integer is answered 400 with an error for the rating field and changes
\* no review; a create with rating 1 or 5 on an existing recipe is accepted.
C8_RatingValidated ==
  [][/\ \A v \in reviews' : v.rating \in MinRating..MaxRating
     /\ (req'.op \in {"POST /api/recipes/:id/reviews", "PUT /api/reviews/:id"}
           /\ IsAuthenticated(req'.caller) /\ BadRating(req'.body.rating))
          => /\ resp'.status = 400
             /\ "rating" \in resp'.errors
             /\ reviews' = reviews
     /\ (req'.op = "POST /api/recipes/:id/reviews" /\ IsAuthenticated(req'.caller)
           /\ req'.id \in RecipeIds /\ req'.body.rating \in {Number(2), Number(10)})
          => resp'.status = 200]_vars

\* a recipe satisfies every filter the request supplies
MatchesFilters(r, f) ==
  /\ Truthy(f.userId) => r.userId = f.userId
  /\ Truthy(f.cuisine) => r.cuisine = f.cuisine
  /\ Truthy(f.difficulty) => r.difficulty = f.difficulty
  /\ f.search # <<>> => (ILike(r.name, f.search) \/ ILike(r.description, f.search))

Listed == {resp.recipes[i] : i \in 1..Len(resp.recipes)}

\* C1: every recipe a recipe list query returns is approved, whatever filters
\* the query supplies.
C1_ListedAreApproved ==
  req.op = "GET /api/recipes" => \A r \in Listed : r.isApproved = TRUE

\* C2: a recipe list query whose page holds the whole result returns exactly
\* the approved recipes that satisfy every supplied filter: each returned
\* recipe satisfies each of them, and each approved recipe that satisfies
\* them all is returned.
C2_FiltersAreConjoined ==
  (req.op = "GET /api/recipes" /\ req.page = 1 /\ req.limit >= Cardinality(recipes)) =>
    /\ \A r \in Listed : MatchesFilters(r, req.filters)
    /\ \A r \in recipes :
         (r.isApproved = TRUE /\ MatchesFilters(r, req.filters)) => r \in Listed

---------------------------------------------------------------------------
(* Requests on recipes and saved recipes *)

\* a seeded recipe without owner (recipes.user_id is nullable) and no other row
Init ==
  /\ users = [u \in Subjects |-> IF u = "adm" THEN "admin" ELSE "user"]
  /\ recipes = {PlainRecipe(1, NULL)}
  /\ reviews = {}
  /\ savedRecipes = {}
  /\ contactMessages = {}
  /\ siteSettings = {}
  /\ nextId = [recipe |-> 2, review |-> 1, saved |-> 1, message |-> 1]
  /\ req = NoRequest
  /\ resp = NoResponse
  /\ gen = NoGen
  /\ calls = NoCalls

Next ==
  \/ Idle /\ \E caller \in {Anonymous, "u1", "u2"}, file \in BOOLEAN,
                  dish \in {"dish", "error"}, image \in {"url", "error"} :
               /\ IdentifyFromPhotoReq(caller, file, dish, image)
               /\ nextId'.recipe <= MaxRecipes + 2
  \/ Idle /\ \E caller \in Callers, id \in 1..(MaxRecipes + 2) : DeleteRecipeReq(caller, id)
  \/ Idle /\ \E id \in 1..(MaxRecipes + 1) :
               /\ CreateReviewReq("u1", id, Body(Number(10), Absent))
               /\ nextId'.review <= MaxRecipeReviews + 1
  \/ Idle /\ \E caller \in {Anonymous, "u1"}, recipeId \in 0..(MaxRecipes + 2) :
               /\ SaveRecipeReq(caller, recipeId)
               /\ nextId'.saved <= MaxSaved + 1
  \/ Idle /\ \E caller \in Callers, recipeId \in 1..(MaxRecipes + 1) :
               UnsaveRecipeReq(caller, recipeId)
  \/ Complete

Spec == Init /\ [][Next]_vars

\* C4: saving is idempotent: the saved-recipes table holds at most one row for
\* a (user, recipe) pair.
C4_OneRowPerPair ==
  \A s1, s2 \in savedRecipes :
    (s1.userId = s2.userId /\ s1.recipeId = s2.recipeId) => s1 = s2

\* C5: a DELETE of an existing recipe by an authenticated caller who is
\* neither its owner nor an admin is answered 403 and leaves the recipe, its
\* reviews and its saved-recipe rows as they were; by the owner or an admin it
\* removes the recipe; a recipe without owner is deleted by an admin only.
C5_DeleteRecipeAuthorized ==
  [][(req'.op = "DELETE /api/recipes/:id" /\ IsAuthenticated(req'.caller)) =>
       \A r \in recipes : r.id = req'.id =>
         /\ (r.userId # req'.caller /\ RoleOf(req'.caller) # "admin") =>
              /\ resp'.status = 403
              /\ recipes' = recipes
              /\ reviews' = reviews
              /\ savedRecipes' = savedRecipes
         /\ (r.userId = req'.caller \/ RoleOf(req'.caller) = "admin") =>
              /\ resp'.status = 200
              /\ r.id \notin RecipeIds'
         /\ (r.userId = NULL /\ r.id \notin RecipeIds') => RoleOf(req'.caller) = "admin"]_vars

\* C5 witness: a user refused the deletion of another user's recipe that has a
\* review and a saved-recipe row
C5_Witness ==
  /\ req.op = "DELETE /api/recipes/:id"
  /\ resp.status = 403
  /\ \E r \in recipes : /\ r.id = req.id
                        /\ r.userId \notin {NULL, req.caller}
                        /\ \E v \in reviews : v.recipeId = r.id
                        /\ \E s \in savedRecipes : s.recipeId = r.id

---------------------------------------------------------------------------
(* Requests that generate recipes from ingredients *)

InitGenerate ==
  /\ users = [u \in Subjects |-> IF u = "adm" THEN "admin" ELSE "user"]
  /\ recipes = {}
  /\ reviews = {}
  /\ savedRecipes = {}
  /\ contactMessages = {}
  /\ siteSettings = {}
  /\ nextId = [recipe |-> 1, review |-> 1, saved |-> 1, message |-> 1]
  /\ req = NoRequest
  /\ resp = NoResponse
  /\ gen = NoGen
  /\ calls = NoCalls

ImageOutcomes == {"url", "nourl", "error"}
DbOutcomes == {"ok", "error"}

NextGenerate ==
  \/ Idle /\ \E caller \in {Anonymous, "u1"},
                ingredients \in {NoIngredients, Ingredients(FALSE, 3),
                                 Ingredients(TRUE, 0), Ingredients(TRUE, 2)},
                ai \in AiFailures \cup {"recipes"}, n \in 0..MaxCandidates :
               \E bad \in 0..n :
                 /\ nextId.recipe + n <= MaxGenerated + 1
                 /\ GenerateFromIngredientsReq(caller, ingredients, ai, n, bad)
  \/ Idle /\ \E caller \in {Anonymous, "u1"}, file \in BOOLEAN,
                  dish \in AiFailures \cup {"dish"}, image \in {"url", "error"} :
               /\ nextId.recipe + 1 <= MaxGenerated + 1
               /\ IdentifyFromPhotoReq(caller, file, dish, image)
  \/ \E outcome \in ImageOutcomes : GenerateImageStep(outcome)
  \/ \E db \in DbOutcomes : CreateRecipeStep(db)
  \/ \E db \in DbOutcomes : CatchCreateRecipeStep(db)
  \/ Complete

SpecGenerate == InitGenerate /\ [][NextGenerate]_vars

\* C9: when the AI adapter returned n candidates and no insert failed, the
\* request is answered with n saved recipes in the order of the candidates,
\* whatever the image calls did: a candidate whose image call failed is saved
\* with the empty image reference, a candidate whose image call returned a
\* url is saved with that non-empty reference.
C9_ImageFailureIsolated ==
  (req.op = GenerateFromIngredientsOp /\ gen.pc = "done" /\ ~gen.threw) =>
    /\ resp.status = 200
    /\ Len(resp.recipes) = Len(gen.recipes)
    /\ Len(gen.images) = Len(gen.recipes)
    /\ \A i \in 1..Len(gen.recipes) :
         /\ resp.recipes[i] \in recipes
         /\ resp.recipes[i].name = gen.recipes[i].name
         /\ resp.recipes[i].userId = req.caller
         /\ gen.images[i] = "error" => resp.recipes[i].imageUrl = ""
         /\ gen.images[i] = "url" => resp.recipes[i].imageUrl = GenerateRecipeImage("url")
         /\ gen.images[i] = "url" => resp.recipes[i].imageUrl \notin {"", NULL}
         /\ \A j \in 1..Len(gen.recipes) :
              i < j => resp.recipes[i].createdAt < resp.recipes[j].createdAt

\* C9 witness: three candidates, the image call of the second failed: three
\* recipes in the response, the second without image, the others with one
C9_Witness ==
  /\ req.op = GenerateFromIngredientsOp
  /\ gen.pc = "done"
  /\ resp.status = 200
  /\ Len(gen.recipes) = 3
  /\ gen.images = <<"url", "error", "url">>
  /\ Len(resp.recipes) = 3
  /\ resp.recipes[2].imageUrl = ""
  /\ resp.recipes[1].imageUrl # ""
  /\ resp.recipes[3].imageUrl # ""

---------------------------------------------------------------------------
(* Requests on the /api/admin routes *)

\* the three users, adm an admin, one recipe of u1 and nothing else
InitAdmin ==
  /\ users = [u \in Subjects |-> IF u = "adm" THEN "admin" ELSE "user"]
  /\ recipes = {PlainRecipe(1, "u1")}
  /\ reviews = {}
  /\ savedRecipes = {}
  /\ contactMessages = {}
  /\ siteSettings = {}
  /\ nextId = [recipe |-> 2, review |-> 1, saved |-> 1, message |-> 1]
  /\ req = NoRequest
  /\ resp = NoResponse
  /\ gen = NoGen
  /\ calls = NoCalls

ContactBodies ==
  {[name |-> "Ann", email |-> "ann@x", message |-> m, isRead |-> isRead] :
     m \in {Absent, "hello"}, isRead \in {Absent, "true"}}

NextAdmin ==
  \/ Idle /\ \E id \in {"u1", "adm"} : UpsertUser(id)
  \/ Idle /\ \E id \in {"u1", "adm"} : DeleteUser(id)
  \/ Idle /\ \E body \in ContactBodies :
               /\ \E caller \in {Anonymous, "u1"} : ContactReq(caller, body)
               /\ nextId'.message <= MaxMessages + 1
  \/ Idle /\ \E caller \in Callers : AdminStatsReq(caller)
  \/ Idle /\ \E caller \in Callers : AdminUsersReq(caller)
  \/ Idle /\ \E caller \in Callers, id \in {"u1", "adm"},
                role \in {Absent, "user", "admin", "banned", "chef"} :
               UpdateUserRoleReq(caller, id, role)
  \/ Idle /\ \E caller \in Callers, id \in 1..2, featured \in {Absent, "true", "false"} :
               FeatureRecipeReq(caller, id, featured)
  \/ Idle /\ \E caller \in Callers : ContactMessagesReq(caller)
  \/ Idle /\ \E caller \in Callers, id \in 1..(MaxMessages + 1) :
               MarkMessageAsReadReq(caller, id)
  \/ Idle /\ \E caller \in Callers : GetSettingsReq(caller)
  \/ Idle /\ \E caller \in Callers, heroText \in {Absent, "Hello", NotAString} :
               UpdateSettingsReq(caller, [heroText |-> heroText])
  \/ Complete

SpecAdmin == InitAdmin /\ [][NextAdmin]_vars

AdminOps ==
  {"GET /api/admin/stats", "GET /api/admin/users", "PUT /api/admin/users/:id/role",
   "PUT /api/admin/recipes/:id/feature", "GET /api/admin/contact-messages",
   "PUT /api/admin/contact-messages/:id/read", "GET /api/admin/settings",
   "PUT /api/admin/settings"}

\* C10: a request to an /api/admin endpoint without identity is answered 401;
\* with an identity whose user row is missing or has a role other than admin
\* it is answered 403; a request so rejected changes no table; and every
\* other answer is given to a caller whose stored role is admin.
C10_AdminGuard ==
  [][req'.op \in AdminOps =>
       /\ req'.caller = Anonymous =>
            resp'.status = 401 /\ UNCHANGED <<tables, nextId>>
       /\ (req'.caller # Anonymous /\ req'.caller \notin DOMAIN users) =>
            resp'.status = 403 /\ UNCHANGED <<tables, nextId>>
       /\ (req'.caller \in DOMAIN users /\ users[req'.caller] # "admin") =>
            resp'.status = 403 /\ UNCHANGED <<tables, nextId>>
       /\ resp'.status \notin {401, 403} =>
            req'.caller \in DOMAIN users /\ users[req'.caller] = "admin"]_vars

\* C10 witness: a role change asked by a caller whose user row is missing,
\* answered 403, while another user is an admin
C10_Witness ==
  /\ req.op = "PUT /api/admin/users/:id/role"
  /\ req.role = "admin"
  /\ req.user \in DOMAIN users
  /\ req.caller # Anonymous
  /\ req.caller \notin DOMAIN users
  /\ resp.status = 403

---------------------------------------------------------------------------
(* Users deleted at the database: the cascades of the foreign keys *)

NextUsers ==
  \/ Idle /\ \E caller \in {"u1", "u2"}, id \in 1..2 :
               /\ CreateReviewReq(caller, id, Body(Number(10), Absent))
               /\ nextId'.review <= MaxUserReviews + 1
  \/ Idle /\ \E caller \in {"u1", "u2"}, recipeId \in 1..2 :
               /\ SaveRecipeReq(caller, recipeId)
               /\ nextId'.saved <= MaxUserSaved + 1
  \/ Idle /\ \E id \in {"u1", "u2"} : UpsertUser(id)
  \/ Idle /\ \E id \in {"u1", "u2"} : DeleteUser(id)
  \/ Complete

SpecUsers == InitReviews /\ [][NextUsers]_vars

\* the owner of the recipe a row refers to
OwnerOf(recipeId) == (CHOOSE r \in recipes : r.id = recipeId).userId

\* C11: the deletion of a user removes the recipes of the user, the reviews
\* and saved-recipe rows of the user, and the reviews and saved-recipe rows
\* anyone attached to those recipes, and nothing else: the recipes of other
\* users remain; afterwards no review or saved-recipe row refers to a missing
\* user or a missing recipe.
C11_DeleteUserCascades ==
  [][\A id \in DOMAIN users :
       id \notin DOMAIN users' =>
         /\ recipes' = {r \in recipes : r.userId # id}
         /\ reviews' = {v \in reviews : v.userId # id /\ OwnerOf(v.recipeId) # id}
         /\ savedRecipes' = {s \in savedRecipes : s.userId # id /\ OwnerOf(s.recipeId) # id}
         /\ \A v \in reviews' \cup savedRecipes' :
              v.userId \in DOMAIN users' /\ v.recipeId \in RecipeIds']_vars

\* C11 witness: u1 is deleted; of three reviews only the review of u2 on the
\* recipe of u2 is left, the recipe of u2 (which u1 had reviewed or saved) is
\* left, and the saved rows are gone
C11_Witness ==
  /\ "u1" \notin DOMAIN users
  /\ recipes = {PlainRecipe(2, "u2")}
  /\ nextId.review = 4
  /\ \E v \in reviews : reviews = {v} /\ v.userId = "u2" /\ v.recipeId = 2
  /\ nextId.saved = 3
  /\ savedRecipes = {}

---------------------------------------------------------------------------
(* Read paths: featured recipes, saved recipes, saved status *)

\* .limit(10) of getFeaturedRecipes
FeaturedLimit == 10

\* (mutant) the query without its limit
AllFeaturedRecipes ==
  OrderByCreatedAtDesc({r \in recipes : r.isFeatured /\ r.isApproved})

\* DatabaseStorage.getFeaturedRecipes
GetFeaturedRecipes ==
  LimitOffset(OrderByCreatedAtDesc({r \in recipes : r.isFeatured /\ r.isApproved}),
              FeaturedLimit, 0)

\* DatabaseStorage.getSavedRecipes: the recipes of the saved rows of the user,
\* the row saved last first
GetSavedRecipes(userId) ==
  LET rows == OrderByCreatedAtDesc({s \in savedRecipes :
                                      s.userId = userId /\ s.recipeId \in RecipeIds})
  IN [i \in 1..Len(rows) |-> CHOOSE r \in recipes : r.id = rows[i].recipeId]

\* DatabaseStorage.isRecipeSaved
IsRecipeSaved(userId, recipeId) ==
  \E s \in savedRecipes : s.userId = userId /\ s.recipeId = recipeId

\* GET /api/recipes/featured
GetFeaturedReq ==
  /\ req' = [op |-> "GET /api/recipes/featured", caller |-> Anonymous, id |-> 0]
  /\ resp' = [status |-> 200, recipes |-> GetFeaturedRecipes]
  /\ UNCHANGED <<tables, nextId, gen, calls>>

\* GET /api/saved-recipes
GetSavedRecipesReq(caller) ==
  /\ req' = [op |-> "GET /api/saved-recipes", caller |-> caller, id |-> 0]
  /\ resp' = IF ~IsAuthenticated(caller) THEN [status |-> 401]
             ELSE [status |-> 200, recipes |-> GetSavedRecipes(caller)]
  /\ UNCHANGED <<tables, nextId, gen, calls>>

\* GET /api/saved-recipes/:recipeId/status
SavedStatusReq(caller, recipeId) ==
  /\ req' = [op |-> "GET /api/saved-recipes/:recipeId/status", caller |-> caller,
             id |-> recipeId]
  /\ resp' = IF ~IsAuthenticated(caller) THEN [status |-> 401]
             ELSE [status |-> 200, isSaved |-> IsRecipeSaved(caller, recipeId)]
  /\ UNCHANGED <<tables, nextId, gen, calls>>

---------------------------------------------------------------------------
(* Reads of recipes that may be unapproved *)

\* the recipes of u1 and of u2, each approved or not
InitVisible ==
  /\ users = [u \in Subjects |-> IF u = "adm" THEN "admin" ELSE "user"]
  /\ \E approved \in [1..2 -> BOOLEAN] :
       recipes = {[PlainRecipe(1, "u1") EXCEPT !.isApproved = approved[1]],
                  [PlainRecipe(2, "u2") EXCEPT !.isApproved = approved[2]]}
  /\ reviews = {}
  /\ savedRecipes = {}
  /\ contactMessages = {}
  /\ siteSettings = {}
  /\ nextId = [recipe |-> 3, review |-> 1, saved |-> 1, message |-> 1]
  /\ req = NoRequest
  /\ resp = NoResponse
  /\ gen = NoGen
  /\ calls = NoCalls

NextVisible ==
  \/ Idle /\ \E id \in 1..3 : GetRecipeReq(id)
  \/ Idle /\ GetFeaturedReq
  \/ Idle /\ \E caller \in {"u1", "u2"}, recipeId \in 1..2 :
               /\ SaveRecipeReq(caller, recipeId)
               /\ nextId'.saved <= MaxVisibleSaved + 1
  \/ Idle /\ \E caller \in {"u1", "u2"}, recipeId \in 1..2 : UnsaveRecipeReq(caller, recipeId)
  \/ Idle /\ \E caller \in {Anonymous, "u1", "u2"} : GetSavedRecipesReq(caller)
  \/ Complete

SpecVisible == InitVisible /\ [][NextVisible]_vars

\* C12: no read path open to callers who are neither owner nor admin returns
\* an unapproved recipe: not the fetch of a single recipe, not the featured
\* list, not the list of the saved recipes of a user.
C12_UnapprovedNotReturned ==
  /\ (req.op = "GET /api/recipes/:id" /\ resp.status = 200) => resp.recipe.isApproved
  /\ (req.op = "GET /api/recipes/featured" /\ resp.status = 200) =>
       \A i \in 1..Len(resp.recipes) : resp.recipes[i].isApproved
  /\ (req.op = "GET /api/saved-recipes" /\ resp.status = 200) =>
       \A i \in 1..Len(resp.recipes) :
         resp.recipes[i].userId # req.caller => resp.recipes[i].isApproved

---------------------------------------------------------------------------
(* GET /api/admin/settings by concurrent requests, one step per statement  *)
(* of getSiteSettings.  calls[p] is the request of reader p: where it is   *)
(* (pc), the status it answered and the settings it returned.              *)

\* the guards and the select of getSiteSettings: the row is returned when it
\* is there, otherwise the call goes on to the insert
SettingsSelect(p, caller) ==
  /\ calls[p].pc = "idle"
  /\ calls' = [calls EXCEPT ![p] =
       IF AdminGuard(caller) # 0
         THEN [pc |-> "done", caller |-> caller, status |-> AdminGuard(caller),
               settings |-> {}]
       ELSE IF siteSettings = {}
         THEN [pc |-> "insert", caller |-> caller, status |-> 0, settings |-> {}]
       ELSE [pc |-> "done", caller |-> caller, status |-> 200, settings |-> siteSettings]]
  /\ UNCHANGED <<tables, nextId, req, resp, gen>>

\* insert(siteSettings).values({ id: "settings" }): the primary key rejects a
\* second row with the id; the error is answered 500 by the handler
SettingsInsert(p) ==
  /\ calls[p].pc = "insert"
  /\ UNCHANGED <<users, recipes, reviews, savedRecipes, contactMessages, nextId,
                 req, resp, gen>>
  /\ IF \E row \in siteSettings : row.id = DefaultSettings.id
       THEN /\ calls' = [calls EXCEPT ![p].pc = "done", ![p].status = 500]
            /\ UNCHANGED siteSettings
       ELSE /\ siteSettings' = siteSettings \cup {DefaultSettings}
            /\ calls' = [calls EXCEPT ![p].pc = "done", ![p].status = 200,
                                      ![p].settings = {DefaultSettings}]

\* the response of reader p is sent
SettingsReturn(p) ==
  /\ calls[p].pc = "done"
  /\ calls' = [calls EXCEPT ![p] = NoCall]
  /\ UNCHANGED <<tables, nextId, req, resp, gen>>

NextSettings ==
  \/ \E p \in Readers, caller \in {"u1", "adm"} : SettingsSelect(p, caller)
  \/ \E p \in Readers : SettingsInsert(p)
  \/ \E p \in Readers : SettingsReturn(p)
  \/ Idle /\ \E caller \in {"u1", "adm"}, heroText \in {Absent, "Hello"} :
               UpdateSettingsReq(caller, [heroText |-> heroText])
  \/ Complete

SpecSettings == InitAdmin /\ [][NextSettings]_vars

\* C13: however the reads of the settings interleave, at most one settings
\* row exists, and every read by an admin succeeds and returns a settings row.
C13_GetOrCreate ==
  /\ Cardinality(siteSettings) <= 1
  /\ \A p \in Readers :
       (calls[p].pc = "done" /\ RoleOf(calls[p].caller) = "admin") =>
         /\ calls[p].status = 200
         /\ calls[p].settings # {}

\* C14: a valid PUT /api/admin/settings by an admin stores the supplied values
\* in the row with id "settings" and returns that row, in every state, also
\* when no settings row has been created yet.
C14_UpdateWritesSingleton ==
  [][(req'.op = "PUT /api/admin/settings" /\ RoleOf(req'.caller) = "admin"
        /\ ~SettingsIssue(req'.body)) =>
       /\ resp'.status = 200
       /\ \E row \in siteSettings' :
            /\ row.id = DefaultSettings.id
            /\ req'.body.heroText # Absent => row.heroText = req'.body.heroText
            /\ resp'.settings = {row}]_vars

\* C15: a POST /api/recipes/:id/reviews by an authenticated caller with a
\* valid body (an integer rating from 1 to 5) succeeds for every recipe id of
\* the path and in every state: it adds exactly one review row and returns it.
C15_ReviewCreateSucceeds ==
  [][(req'.op = "POST /api/recipes/:id/reviews" /\ IsAuthenticated(req'.caller)
        /\ req'.body.rating \in StoredRatings) =>
       /\ resp'.status = 200
       /\ \E v \in reviews' \ reviews :
            /\ reviews' = reviews \cup {v}
            /\ resp'.review = v]_vars

---------------------------------------------------------------------------
(* Failures of the AI calls *)

\* C16: when the AI call of generate-from-ingredients or of
\* identify-from-photo fails (error of the service, no content, content that
\* is not JSON), the request is answered 500 with the fixed message of the
\* route and nothing else, the loop is not entered and no recipe is stored.
C16_AiFailureIs500 ==
  [][/\ (req'.op = GenerateFromIngredientsOp /\ IsAuthenticated(req'.caller)
           /\ ~IngredientsMissing(req'.ingredients) /\ req'.ai \in AiFailures) =>
          /\ resp' = [status |-> 500, message |-> "Failed to generate recipes"]
          /\ gen' = NoGen
          /\ recipes' = recipes /\ nextId' = nextId
     /\ (req'.op = "POST /api/recipes/identify-from-photo" /\ IsAuthenticated(req'.caller)
           /\ req'.file /\ req'.dish \in AiFailures) =>
          /\ resp' = [status |-> 500, message |-> "Failed to identify dish from photo"]
          /\ recipes' = recipes /\ nextId' = nextId]_vars

\* C16 witness: a generation whose AI call returned content that is not JSON,
\* answered 500, after an earlier request has stored recipes
C16_Witness ==
  /\ req.op = GenerateFromIngredientsOp
  /\ req.ai = "unparsable"
  /\ req.caller = "u1"
  /\ ~IngredientsMissing(req.ingredients)
  /\ resp.status = 500
  /\ recipes # {}

---------------------------------------------------------------------------
(* The contact form and the messages *)

\* C17: a POST /api/contact with name, email and message, from any caller,
\* stores exactly one new message, unread whatever the body says about
\* isRead, and answers 200 with the confirmation; a body that lacks one of
\* the three answers 400 and stores nothing.
C17_ContactStoresUnread ==
  [][req'.op = "POST /api/contact" =>
       IF Absent \notin {req'.body.name, req'.body.email, req'.body.message}
         THEN /\ resp' = [status |-> 200, message |-> "Message sent successfully"]
              /\ \E msg \in contactMessages' \ contactMessages :
                   /\ contactMessages' = contactMessages \cup {msg}
                   /\ msg.isRead = FALSE
                   /\ msg.name = req'.body.name
                   /\ msg.email = req'.body.email
                   /\ msg.message = req'.body.message
         ELSE /\ resp'.status = 400
              /\ contactMessages' = contactMessages]_vars

\* C17 witness: an unauthenticated caller sent a valid body with isRead set:
\* the new message is stored unread
C17_Witness ==
  /\ req.op = "POST /api/contact"
  /\ req.caller = Anonymous
  /\ req.body.isRead = "true"
  /\ resp.status = 200
  /\ \E msg \in contactMessages : msg.id = nextId.message - 1 /\ ~msg.isRead

\* C19: no step takes a message back to unread; marking an existing message
\* as read answers 200 and leaves it read, whether it was read before or not,
\* and leaves every other message as it was; marking an id that names no
\* message answers 404 and changes nothing.
C19_MarkAsReadIdempotent ==
  [][/\ \A m \in contactMessages :
          m.isRead => \E n \in contactMessages' : n.id = m.id /\ n.isRead
     /\ (req'.op = "PUT /api/admin/contact-messages/:id/read"
           /\ RoleOf(req'.caller) = "admin") =>
          IF \E m \in contactMessages : m.id = req'.id
            THEN /\ resp'.status = 200
                 /\ \A m \in contactMessages :
                      IF m.id = req'.id
                        THEN [m EXCEPT !.isRead = TRUE] \in contactMessages'
                        ELSE m \in contactMessages'
                 /\ Cardinality(contactMessages') = Cardinality(contactMessages)
            ELSE /\ resp'.status = 404
                 /\ contactMessages' = contactMessages]_vars

\* C19 witness: of two messages one was marked as read, the other is unread
C19_Witness ==
  /\ req.op = "PUT /api/admin/contact-messages/:id/read"
  /\ resp.status = 200
  /\ Cardinality(contactMessages) = 2
  /\ \A m \in contactMessages : m.isRead <=> m.id = req.id

---------------------------------------------------------------------------
(* The featured list *)

\* recipes 1..MaxFeaturedRecipes, created in the order of their ids; at most
\* one of them is unapproved and at most one is not featured
InitFeatured ==
  /\ users = [u \in Subjects |-> IF u = "adm" THEN "admin" ELSE "user"]
  /\ \E unapproved \in 0..MaxFeaturedRecipes, plain \in 0..MaxFeaturedRecipes :
       recipes = {[PlainRecipe(i, "u1") EXCEPT !.isApproved = (i # unapproved),
                                               !.isFeatured = (i # plain)] :
                    i \in 1..MaxFeaturedRecipes}
  /\ reviews = {}
  /\ savedRecipes = {}
  /\ contactMessages = {}
  /\ siteSettings = {}
  /\ nextId = [recipe |-> MaxFeaturedRecipes + 1, review |-> 1, saved |-> 1, message |-> 1]
  /\ req = NoRequest
  /\ resp = NoResponse
  /\ gen = NoGen
  /\ calls = NoCalls

NextFeatured ==
  \/ Idle /\ GetFeaturedReq
  \/ Idle /\ \E caller \in {"u1", "adm"}, id \in {1, MaxFeaturedRecipes},
                featured \in {"true", "false"} :
               FeatureRecipeReq(caller, id, featured)
  \/ Complete

SpecFeatured == InitFeatured /\ [][NextFeatured]_vars

\* C18: the featured list holds at most 10 recipes, each approved and
\* featured, newest first; it holds all the qualifying recipes when there are
\* at most 10 and otherwise the 10 newest of them.
C18_FeaturedNewestTen ==
  (req.op = "GET /api/recipes/featured" /\ resp.status = 200) =>
    LET qualifying == {r \in recipes : r.isFeatured /\ r.isApproved}
        list == resp.recipes
        listed == {list[i] : i \in 1..Len(list)}
    IN /\ Len(list) <= 10
       /\ listed \subseteq qualifying
       /\ \A i, j \in 1..Len(list) : i < j => list[i].createdAt > list[j].createdAt
       /\ Len(list) = IF Cardinality(qualifying) < 10 THEN Cardinality(qualifying) ELSE 10
       /\ \A r \in qualifying \ listed : \A o \in listed : o.createdAt > r.createdAt

\* C18 witness: eleven recipes qualify and the list holds ten, the oldest
\* recipe is left out
C18_Witness ==
  /\ req.op = "GET /api/recipes/featured"
  /\ Cardinality({r \in recipes : r.isFeatured /\ r.isApproved}) = 11
  /\ Len(resp.recipes) = 10
  /\ resp.recipes[1].id = 11
  /\ \A i \in 1..10 : resp.recipes[i].id # 1

---------------------------------------------------------------------------
(* Saves and unsaves *)

NextSaved ==
  \/ Idle /\ \E caller \in {Anonymous, "u1", "u2"}, recipeId \in 0..3 :
               /\ SaveRecipeReq(caller, recipeId)
               /\ nextId'.saved <= MaxPairSaved + 1
  \/ Idle /\ \E caller \in {Anonymous, "u1", "u2"}, recipeId \in 1..3 :
               UnsaveRecipeReq(caller, recipeId)
  \/ Idle /\ \E caller \in {Anonymous, "u1", "u2"}, recipeId \in 1..3 :
               SavedStatusReq(caller, recipeId)
  \/ Complete

SpecSaved == InitReviews /\ [][NextSaved]_vars

\* the saved-recipe rows of other pairs than (userId, recipeId)
OtherPairs(rows, userId, recipeId) ==
  {s \in rows : ~(s.userId = userId /\ s.recipeId = recipeId)}

\* C20: after a save of an existing recipe by u the pair is saved; after an
\* unsave by u it is not and no row of the pair is left; an unsave of a pair
\* that is not saved answers 404 and changes nothing; neither adds or removes
\* a row of another user or another recipe; the status route answers whether
\* a row of the pair exists.
C20_SavedFollowsSaveUnsave ==
  [][/\ (req'.op = "POST /api/saved-recipes" /\ IsAuthenticated(req'.caller)) =>
          /\ req'.id \in RecipeIds =>
               /\ resp'.status = 200
               /\ \E s \in savedRecipes' : s.userId = req'.caller /\ s.recipeId = req'.id
          /\ OtherPairs(savedRecipes', req'.caller, req'.id)
               = OtherPairs(savedRecipes, req'.caller, req'.id)
     /\ (req'.op = "DELETE /api/saved-recipes/:recipeId" /\ IsAuthenticated(req'.caller)) =>
          /\ savedRecipes' = OtherPairs(savedRecipes, req'.caller, req'.id)
          /\ IF savedRecipes' = savedRecipes
               THEN resp'.status = 404 ELSE resp'.status = 200
     /\ (req'.op = "GET /api/saved-recipes/:recipeId/status"
           /\ IsAuthenticated(req'.caller)) =>
          resp'.isSaved =
            (\E s \in savedRecipes' : s.userId = req'.caller /\ s.recipeId = req'.id)]_vars

\* C20 witness: u1 unsaved recipe 2, which u2 has saved too: of three rows
\* the row of u2 is left
C20_Witness ==
  /\ req.op = "DELETE /api/saved-recipes/:recipeId"
  /\ req.caller = "u1"
  /\ req.id = 2
  /\ resp.status = 200
  /\ nextId.saved = 4
  /\ \E s \in savedRecipes : savedRecipes = {s} /\ s.userId = "u2" /\ s.recipeId = 2

---------------------------------------------------------------------------
(* Role changes by an admin *)

\* C21: PUT /api/admin/users/:id/role by an admin with a role among user,
\* admin and banned and an existing target stores exactly that role for the
\* target and changes no other user, whoever the target is (the caller, the
\* last admin); a role outside the three is answered 400 and an unknown user
\* 404, both with every stored role unchanged.
C21_RoleChangeUnconstrained ==
  [][(req'.op = "PUT /api/admin/users/:id/role" /\ resp'.status \notin {401, 403}) =>
       IF req'.role \notin {"user", "admin", "banned"}
         THEN resp'.status = 400 /\ users' = users
       ELSE IF req'.user \notin DOMAIN users
         THEN resp'.status = 404 /\ users' = users
       ELSE /\ resp'.status = 200
            /\ DOMAIN users' = DOMAIN users
            /\ \A u \in DOMAIN users :
                 users'[u] = IF u = req'.user THEN req'.role ELSE users[u]]_vars

\* the only admin has demoted themself and no admin is left
C21_Witness ==
  /\ req # NoRequest
  /\ req.op = "PUT /api/admin/users/:id/role"
  /\ req.caller = "adm"
  /\ req.user = "adm"
  /\ req.role = "banned"
  /\ resp.status = 200
  /\ users["adm"] = "banned"
  /\ \A u \in DOMAIN users : users[u] # "admin"

---------------------------------------------------------------------------
(* The image call of the photo identification *)

IdentifyFromPhotoOp == "POST /api/recipes/identify-from-photo"

\* C22: on POST /api/recipes/identify-from-photo by an authenticated caller,
\* when the dish is identified and the image call fails, exactly one recipe
\* is stored, owned by the caller and with the empty image reference, and it
\* is returned together with the confidence of the identification; a request
\* without file is answered 400 whatever the AI calls would have given, and
\* stores nothing.
C22_PhotoImageFailureNotFatal ==
  [][(req'.op = IdentifyFromPhotoOp /\ req'.caller # Anonymous) =>
       /\ ~req'.file =>
            resp'.status = 400 /\ recipes' = recipes /\ nextId' = nextId
       /\ (req'.file /\ req'.dish = "dish" /\ req'.image = "error") =>
            /\ resp'.status = 200
            /\ resp'.recipe \notin recipes
            /\ recipes' = recipes \cup {resp'.recipe}
            /\ resp'.recipe.userId = req'.caller
            /\ resp'.recipe.imageUrl = ""
            /\ resp'.confidence = IdentifyDishFromPhoto(req'.dish).confidence]_vars

\* a dish was identified, its image call failed, and the recipe is stored
\* without image
C22_Witness ==
  /\ req.op = IdentifyFromPhotoOp
  /\ req.caller = "u1"
  /\ req.file
  /\ req.dish = "dish"
  /\ req.image = "error"
  /\ resp.status = 200
  /\ resp.recipe \in recipes
  /\ resp.recipe.imageUrl = ""
  /\ resp.recipe.userId = "u1"

---------------------------------------------------------------------------
(* The feature toggle *)

FeatureRecipeOp == "PUT /api/admin/recipes/:id/feature"

\* a stored boolean as the value a request body carries
JsonBoolean(b) == IF b THEN "true" ELSE "false"

\* C23: PUT /api/admin/recipes/:id/feature by an admin answers 404 for an
\* unknown recipe and changes nothing; for a stored recipe it changes no
\* other recipe and no field but isFeatured, and whenever it answers success
\* the stored isFeatured of the recipe equals the featured value of the
\* request.
C23_FeatureSetsRequested ==
  [][(req'.op = FeatureRecipeOp /\ resp'.status \notin {401, 403}) =>
       IF req'.id \notin RecipeIds
         THEN resp'.status = 404 /\ recipes' = recipes
         ELSE /\ resp'.status = 200
              /\ \E r \in recipes :
                   /\ r.id = req'.id
                   /\ \E b \in BOOLEAN :
                        /\ recipes' = (recipes \ {r}) \cup {[r EXCEPT !.isFeatured = b]}
                        /\ JsonBoolean(b) = req'.featured]_vars

---------------------------------------------------------------------------
(* The fields an update of a review may change *)

\* C24: after a PUT /api/reviews/:id by the author of the review, the row
\* still has the userId, the recipeId and the isApproved it had before.
C24_UpdateKeepsOwnerAndApproval ==
  [][req'.op = "PUT /api/reviews/:id" =>
       \A v \in reviews :
         (v.id = req'.id /\ v.userId = req'.caller) =>
           \E w \in reviews' :
             /\ w.id = v.id
             /\ w.userId = v.userId
             /\ w.recipeId = v.recipeId
             /\ w.isApproved = v.isApproved]_vars

---------------------------------------------------------------------------
(* Requests on reviews: the author and the recipe of a new review *)

\* bodies that name an author and a recipe of their own
AttributedBodies ==
  {[rating |-> Number(10), comment |-> Absent, isApproved |-> Absent,
    userId |-> u, recipeId |-> r] : u \in {Absent, "u2", "adm"}, r \in 0..2}

NextAuthored ==
  \/ Idle /\ \E c \in {"u1", "u2"}, id \in 1..2, body \in AttributedBodies :
               /\ CreateReviewReq(c, id, body)
               /\ nextId'.review <= MaxReviews + 1
  \/ Idle /\ \E id \in 1..MaxReviews : DeleteReviewReq("u1", id)
  \/ Complete

SpecAuthored == InitReviews /\ [][NextAuthored]_vars

\* C25: every review a POST /api/recipes/:id/reviews stores has the caller
\* as userId and the recipe of the path as recipeId, whatever userId and
\* recipeId the body carries; the successful request stores exactly one
\* review, the one it returns.
C25_ReviewAttributedToCaller ==
  [][req'.op = "POST /api/recipes/:id/reviews" =>
       /\ \A v \in reviews' \ reviews :
            v.userId = req'.caller /\ v.recipeId = req'.id
       /\ resp'.status = 200 =>
            /\ resp'.review \notin reviews
            /\ reviews' = reviews \cup {resp'.review}]_vars

\* u1 posted to recipe 1 a body naming u2 and recipe 2; the review is u1's
\* and on recipe 1
C25_Witness ==
  /\ req.op = "POST /api/recipes/:id/reviews"
  /\ req.caller = "u1"
  /\ req.id = 1
  /\ req.body.userId = "u2"
  /\ req.body.recipeId = 2
  /\ resp.status = 200
  /\ resp.review \in reviews
  /\ resp.review.userId = "u1"
  /\ resp.review.recipeId = 1

---------------------------------------------------------------------------
(* GET /api/recipes/:id statement by statement, beside requests on reviews *)

GetRecipeOp == "GET /api/recipes/:id"

\* select from recipes where id: no row is answered 404
GetRecipeSelect(p, id) ==
  /\ calls[p].pc = "idle"
  /\ calls' = [calls EXCEPT ![p] =
       IF id \notin RecipeIds
         THEN [pc |-> "done", caller |-> Anonymous, status |-> 404, settings |-> {},
               op |-> GetRecipeOp, id |-> id, reviews |-> <<>>,
               avgRating |-> NullAvg, averageRating |-> NullAvg, reviewCount |-> 0]
         ELSE [pc |-> "reviews", caller |-> Anonymous, status |-> 0, settings |-> {},
               op |-> GetRecipeOp, id |-> id, reviews |-> <<>>,
               avgRating |-> NullAvg, averageRating |-> NullAvg, reviewCount |-> 0]]
  /\ UNCHANGED <<tables, nextId, req, resp, gen>>

\* the select of the approved reviews of the recipe, newest first
GetRecipeReviews(p) ==
  /\ calls[p].pc = "reviews"
  /\ calls' = [calls EXCEPT ![p].pc = "avg",
                            ![p].reviews = OrderByCreatedAtDesc(ApprovedReviewsOf(calls[p].id))]
  /\ UNCHANGED <<tables, nextId, req, resp, gen>>

\* the select of avg(reviews.rating)
GetRecipeAvg(p) ==
  /\ calls[p].pc = "avg"
  /\ calls' = [calls EXCEPT ![p].pc = "count",
                            ![p].avgRating = AvgRating(calls[p].id)]
  /\ UNCHANGED <<tables, nextId, req, resp, gen>>

\* the select of count() and the object getRecipe returns, which the handler
\* answers
GetRecipeCount(p) ==
  /\ calls[p].pc = "count"
  /\ calls' = [calls EXCEPT ![p].pc = "done",
                            ![p].status = 200,
                            ![p].averageRating = IF calls[p].avgRating # NullAvg
                                                   THEN calls[p].avgRating
                                                   ELSE <<0, 1>>,
                            ![p].reviewCount = ReviewCount(calls[p].id)]
  /\ UNCHANGED <<tables, nextId, req, resp, gen>>

\* res.json(recipe) / res.status(404).json(...): the request ends
GetRecipeReturn(p) ==
  /\ calls[p].pc = "done"
  /\ calls' = [calls EXCEPT ![p] = NoCall]
  /\ UNCHANGED <<tables, nextId, req, resp, gen>>

NextFetch ==
  \/ \E id \in 1..3 : GetRecipeSelect(1, id)
  \/ GetRecipeReviews(1)
  \/ GetRecipeAvg(1)
  \/ GetRecipeCount(1)
  \/ GetRecipeReturn(1)
  \/ Idle /\ \E id \in 1..2, rating \in {Number(2), Number(10)} :
               /\ CreateReviewReq("u1", id, Body(rating, Absent))
               /\ nextId'.review <= MaxReviews + 1
  \/ Idle /\ \E id \in 1..MaxReviews : DeleteReviewReq("u1", id)
  \/ Complete

SpecFetch == InitReviews /\ [][NextFetch]_vars

\* the sum of the ratings of the reviews of a list
RECURSIVE SumOfList(_)
SumOfList(list) ==
  IF list = <<>> THEN 0 ELSE Head(list).rating + SumOfList(Tail(list))

\* C26: the answer of GET /api/recipes/:id is consistent in itself, also when
\* reviews of the recipe are created or deleted while it is computed:
\* reviewCount is the length of the returned list of reviews, and
\* averageRating is the mean of the ratings in that list (0 for none).
C26_FetchConsistent ==
  (calls[1].pc = "done" /\ calls[1].status = 200) =>
    LET n == Len(calls[1].reviews)
        a == calls[1].averageRating
    IN /\ calls[1].reviewCount = n
       /\ n = 0 => a = <<0, 1>>
       /\ n > 0 => a[2] > 0 /\ a[1] * n = SumOfList(calls[1].reviews) * a[2]

---------------------------------------------------------------------------
(* DELETE /api/recipes/:id statement by statement, several requests side by side *)

DeleteRecipeOp == "DELETE /api/recipes/:id"

\* (mutant) the result of the delete statement ignored
DeleteRecipeAnyCount(id) == TRUE

\* deleteRecipe: result.rowCount > 0
DeleteRecipe(id) == id \in RecipeIds

\* isAuthenticated and storage.getRecipe(req.params.id): no row is answered 404
DeleteFetch(p, caller, id) ==
  /\ calls[p].pc = "idle"
  /\ calls' = [calls EXCEPT ![p] =
       [pc |-> IF IsAuthenticated(caller) /\ id \in RecipeIds
                 THEN "authorize" ELSE "done",
        caller |-> caller,
        status |-> IF ~IsAuthenticated(caller) THEN 401
                   ELSE IF id \notin RecipeIds THEN 404 ELSE 0,
        settings |-> {}, op |-> DeleteRecipeOp, id |-> id,
        recipe |-> {r \in recipes : r.id = id}, deleted |-> "none"]]
  /\ UNCHANGED <<tables, nextId, req, resp, gen>>

\* storage.getUser and the ownership test on the recipe fetched before
DeleteAuthorize(p) ==
  /\ calls[p].pc = "authorize"
  /\ LET recipe == CHOOSE r \in calls[p].recipe : TRUE
     IN calls' = IF MayDeleteRecipe(recipe, calls[p].caller)
                   THEN [calls EXCEPT ![p].pc = "delete"]
                   ELSE [calls EXCEPT ![p].pc = "done", ![p].status = 403]
  /\ UNCHANGED <<tables, nextId, req, resp, gen>>

\* storage.deleteRecipe and the answer: 404 when the statement deleted no row
DeleteRecipeStep(p) ==
  /\ calls[p].pc = "delete"
  /\ LET id == calls[p].id
         deleted == DeleteRecipe(id)
     IN /\ recipes' = {r \in recipes : r.id # id}
        /\ reviews' = {v \in reviews : v.recipeId # id}
        /\ savedRecipes' = {s \in savedRecipes : s.recipeId # id}
        /\ calls' = [calls EXCEPT ![p].pc = "done",
                                  ![p].deleted = IF deleted THEN "true" ELSE "false",
                                  ![p].status = IF deleted THEN 200 ELSE 404]
  /\ UNCHANGED <<site, users, nextId, req, resp, gen>>

\* each of the requests is made once, by any caller, for recipe 1 or 2
NextRemove ==
  \/ \E p \in Readers, caller \in Callers, id \in 1..2 : DeleteFetch(p, caller, id)
  \/ \E p \in Readers : DeleteAuthorize(p)
  \/ \E p \in Readers : DeleteRecipeStep(p)

SpecRemove == InitAdmin /\ [][NextRemove]_vars

\* the answered deletes of recipe 1 by callers allowed to delete it
AnsweredDeletes ==
  {p \in Readers : /\ calls[p].pc = "done"
                   /\ calls[p].id = 1
                   /\ calls[p].caller # Anonymous
                   /\ MayDeleteRecipe(PlainRecipe(1, "u1"), calls[p].caller)}

\* C27: of the DELETE /api/recipes/:id requests for one stored recipe by
\* callers allowed to delete it, however their statements interleave,
\* exactly one is answered success and every other one 404, none 500, and
\* the recipe is gone once one of them is answered.
C27_ConcurrentDeleteOneSuccess ==
  AnsweredDeletes # {} =>
    /\ Cardinality({p \in AnsweredDeletes : calls[p].status = 200}) = 1
    /\ \A p \in AnsweredDeletes : calls[p].status \in {200, 404}
    /\ 1 \notin RecipeIds

\* the owner and the admin both fetched the recipe before either deleted it:
\* one delete removed the row, the other found none and was answered 404
C27_Witness ==
  \E p, q \in AnsweredDeletes :
    /\ calls[p].caller = "u1" /\ calls[p].status = 200 /\ calls[p].deleted = "true"
    /\ calls[q].caller = "adm" /\ calls[q].status = 404 /\ calls[q].deleted = "false"

---------------------------------------------------------------------------
(* The admin guard after a role change *)

\* C28: every request to an /api/admin endpoint by a caller with a user row
\* is judged by the role stored for the caller when the request is made: it
\* is answered 403 exactly when that role is not admin, whatever role the
\* caller had before.
C28_GuardReadsStoredRole ==
  [][(req'.op \in AdminOps /\ req'.caller \in DOMAIN users) =>
       /\ resp'.status # 401
       /\ resp'.status = 403 <=> users[req'.caller] # "admin"]_vars

\* u1, a plain user at first, is admitted as admin, and adm, the admin at
\* first, is one no longer
C28_Witness ==
  /\ req.op = "GET /api/admin/stats"
  /\ req.caller = "u1"
  /\ resp.status = 200
  /\ "adm" \in DOMAIN users
  /\ users["adm"] = "user"

---------------------------------------------------------------------------
(* The session-only routes for a banned user *)

\* the routes guarded by isAuthenticated alone
SessionOps ==
  {"POST /api/recipes/:id/reviews", "PUT /api/reviews/:id", "DELETE /api/reviews/:id",
   "POST /api/saved-recipes", "DELETE /api/saved-recipes/:recipeId",
   "DELETE /api/recipes/:id", IdentifyFromPhotoOp}

\* the admin bans and unbans u1; u1, and u2 on what is u1's, use the
\* session-only routes
NextBanned ==
  \/ Idle /\ \E role \in {"user", "banned"} : UpdateUserRoleReq("adm", "u1", role)
  \/ Idle /\ \E id \in 1..2 :
               /\ CreateReviewReq("u1", id, Body(Number(10), Absent))
               /\ nextId'.review <= MaxBannedReviews + 1
  \/ Idle /\ \E c \in {"u1", "u2"}, id \in 1..MaxBannedReviews :
               UpdateReviewReq(c, id, Body(Number(4), Absent))
  \/ Idle /\ \E id \in 1..MaxBannedReviews : DeleteReviewReq("u1", id)
  \/ Idle /\ \E id \in 1..2 : /\ SaveRecipeReq("u1", id)
                              /\ nextId'.saved <= MaxBannedSaved + 1
  \/ Idle /\ \E id \in 1..2 : UnsaveRecipeReq("u1", id)
  \/ Idle /\ \E c \in {"u1", "u2"}, id \in 1..2 : DeleteRecipeReq(c, id)
  \/ Idle /\ /\ nextId.recipe <= MaxRecipes + 1
             /\ IdentifyFromPhotoReq("u1", TRUE, "dish", "url")
  \/ Complete

SpecBanned == InitAdmin /\ [][NextBanned]_vars

\* C29: a request to a session-only route by a caller whose role is user or
\* banned is answered by the tables alone, the same for the two roles: a
\* review of a stored recipe is created, the caller's own review is updated
\* and deleted, a stored recipe is saved, a saved one unsaved, a dish
\* identified and stored, the caller's own recipe deleted (another user's
\* refused with 403); no answer is 401, and 403 is given by the recipe delete
\* to a caller who is not the owner only.
C29_BannedAdmittedLikeUser ==
  [][(/\ req'.op \in SessionOps
      /\ req'.caller \in DOMAIN users
      /\ users[req'.caller] \in {"user", "banned"}) =>
       LET c == req'.caller
           id == req'.id
           status == resp'.status
       IN /\ status # 401
          /\ req'.op = "POST /api/recipes/:id/reviews" =>
               IF id \in RecipeIds
                 THEN status = 200 /\ resp'.review.userId = c
                      /\ reviews' = reviews \cup {resp'.review}
                 ELSE status = 500
          /\ req'.op = "PUT /api/reviews/:id" =>
               status = IF OwnReviewRows(id, c) # {} THEN 200 ELSE 404
          /\ req'.op = "DELETE /api/reviews/:id" =>
               /\ status = IF OwnReviewRows(id, c) # {} THEN 200 ELSE 404
               /\ reviews' = reviews \ OwnReviewRows(id, c)
          /\ req'.op = "POST /api/saved-recipes" =>
               IF id \in RecipeIds
                 THEN status = 200 /\ Cardinality(savedRecipes') = Cardinality(savedRecipes) + 1
                 ELSE status = 500
          /\ req'.op = "DELETE /api/saved-recipes/:recipeId" =>
               /\ status = IF SavedRowsOf(c, id) # {} THEN 200 ELSE 404
               /\ savedRecipes' = savedRecipes \ SavedRowsOf(c, id)
          /\ req'.op = IdentifyFromPhotoOp =>
               status = 200 /\ resp'.recipe.userId = c
                            /\ recipes' = recipes \cup {resp'.recipe}
          /\ req'.op = "DELETE /api/recipes/:id" =>
               IF id \notin RecipeIds THEN status = 404 /\ recipes' = recipes
               ELSE IF \E r \in recipes : r.id = id /\ r.userId = c
                 THEN status = 200 /\ id \notin {r.id : r \in recipes'}
               ELSE status = 403 /\ recipes' = recipes]_vars

\* u1, banned, has deleted their own recipe
C29_Witness ==
  /\ req.op = "DELETE /api/recipes/:id"
  /\ req.caller = "u1"
  /\ users["u1"] = "banned"
  /\ resp.status = 200
  /\ req.id \notin RecipeIds

---------------------------------------------------------------------------
(* The generate loop: what it stores *)

\* the loop of a generate request is running or has ended
InLoop(frame) == frame.pc \in {"image", "create", "catch", "done"}

\* C30: every step of a generate request keeps the recipes stored so far;
\* a step stores at most one row, for the candidate in turn, pushes it and
\* leaves that candidate; the rows a request has stored are its pushed rows,
\* one for each candidate before the one in turn, so never more than the
\* candidates; a failed first insert goes to the second insert of the same
\* candidate, which stores it without image; when the second insert fails
\* too the request is answered 500, the rows of the candidates before stay
\* stored and no later candidate is taken up.
C30_LoopStoresEachOnce ==
  [][req.op = GenerateFromIngredientsOp /\ InLoop(gen) /\ Len(gen.recipes) > 0 =>
       \/ ~InLoop(gen')
       \/ /\ recipes \subseteq recipes'
          /\ Len(gen'.savedRecipes) <= Len(gen'.recipes)
          /\ \A i \in 1..Len(gen'.savedRecipes) : gen'.savedRecipes[i] \in recipes'
          /\ gen'.pc # "done" => Len(gen'.savedRecipes) = gen'.k - 1
          /\ \/ recipes' = recipes /\ gen'.savedRecipes = gen.savedRecipes
                                   /\ gen'.k = gen.k
             \/ \E row \in recipes' \ recipes :
                  /\ recipes' = recipes \cup {row}
                  /\ gen.pc \in {"create", "catch"}
                  /\ row.name = gen.recipes[gen.k].name
                  /\ row.userId = gen.caller
                  /\ gen.pc = "catch" => row.imageUrl = NULL
                  /\ gen'.savedRecipes = Append(gen.savedRecipes, row)
                  /\ Len(gen'.savedRecipes) = gen.k
                  /\ gen'.pc = "done" \/ (gen'.pc = "image" /\ gen'.k = gen.k + 1)
          /\ (gen.pc = "create" /\ recipes' = recipes) => gen'.pc = "catch"
          /\ (gen.pc = "catch" /\ recipes' = recipes) =>
               /\ gen'.pc = "done"
               /\ resp'.status = 500
               /\ Len(gen'.savedRecipes) = gen.k - 1
          /\ gen.pc = "done" => UNCHANGED <<recipes, gen>>]_vars

\* both inserts of the second of three candidates failed: the request is
\* answered 500, the recipe of the first candidate is stored and the third
\* was not taken up
C30_Witness ==
  /\ req.op = GenerateFromIngredientsOp
  /\ gen.pc = "done"
  /\ resp.status = 500
  /\ Len(gen.recipes) = 3
  /\ gen.k = 2
  /\ Len(gen.savedRecipes) = 1
  /\ gen.savedRecipes[1] \in recipes
  /\ Cardinality(recipes) = 1

====
